---- MODULE Spec2Model ----
(***************************************************************************)
(* SATG scenario generator (bluesky/plugins/SATG.py): the session state,   *)
(* the replay (RL) and geometric-conflict (GC) commands, and the scenario  *)
(* file they write.                                                        *)
(*                                                                         *)
(* Text is modelled as sequences of one-character strings, so that the     *)
(* regular expressions of the code are computed and not assumed.  A line   *)
(* of the scenario file is a record of the parts of its text the program   *)
(* reads back or the properties speak of: the stamp, the command, the      *)
(* aircraft identifier, the fix name and the flight level.  Times are      *)
(* whole seconds; latitudes, longitudes and noise offsets are integers on  *)
(* a unit grid.                                                            *)
(***************************************************************************)
EXTENDS Integers, Sequences, FiniteSets, TLC

VARIABLES
    flights,        \* STATE.flights: the metadata rows, in insertion order
    base_points,    \* STATE.base_points: <<acid, waypoints>> in insertion order
    loaded_ok,      \* STATE.loaded_ok
    jitter_on,      \* STATE.jitter_on
    j_seed,         \* STATE.j_seed (NoSeed is None)
    jitter_pct,     \* STATE.jitter_pct
    jitter_subset,  \* STATE.jitter_subset (isNone is None)
    dt_max, dlat_max, dlon_max, dfl_max,   \* the four magnitudes
    jitter_dist,    \* STATE.jitter_dist
    nsig,           \* STATE.nsig
    autodel,        \* STATE.autodel
    gc_last_acids,  \* STATE.gc_last_acids
    gc_ranges,      \* STATE.gc_ranges
    calls,          \* generation calls in progress in two sessions, and what they did
    scn,            \* the scenario file <scn_dir>/<name>.scn
    last            \* what the last command did (its result and local values)

vars == <<flights, base_points, loaded_ok, jitter_on, j_seed, jitter_pct,
          jitter_subset, dt_max, dlat_max, dlon_max, dfl_max, jitter_dist,
          nsig, autodel, gc_last_acids, gc_ranges, calls, scn, last>>

jitterVars == <<jitter_on, j_seed, jitter_pct, jitter_subset, dt_max, dlat_max,
                dlon_max, dfl_max, jitter_dist, nsig>>

loadVars == <<flights, base_points, loaded_ok>>

(***************************************************************************)
(* Bounds of the model.                                                    *)
(***************************************************************************)
\* most CRE lines a file holds: an append that would pass it is not taken
MaxCre == 6
\* most encounters one SATG_RC_CIRCLE call is asked for
MaxCircle == 2
\* most identifiers recorded in gc_last_acids before SATG_GC_DEL is needed
MaxGcLast == 4

(***************************************************************************)
(* Text helpers.                                                           *)
(***************************************************************************)
DigitChars == <<"0", "1", "2", "3", "4", "5", "6", "7", "8", "9">>

Digits == {"0", "1", "2", "3", "4", "5", "6", "7", "8", "9"}

IsDigit(c) == c \in Digits

DigitVal(c) == (CHOOSE i \in 1..10 : DigitChars[i] = c) - 1

Letters ==
          {"A", "B", "C", "D", "E", "F", "G", "H", "I", "J", "K", "L", "M",
           "N", "O", "P", "Q", "R", "S", "T", "U", "V", "W", "X", "Y", "Z",
           "a", "b", "c", "d", "e", "f", "g", "h", "i", "j", "k", "l", "m",
           "n", "o", "p", "q", "r", "s", "t", "u", "v", "w", "x", "y", "z"}

\* [A-Za-z]
IsAlpha(c) == c \in Letters

\* [A-Za-z0-9_-]
IsAcidChar(c) == IsAlpha(c) \/ IsDigit(c) \/ c = "_" \/ c = "-"

\* [A-Za-z0-9_]
IsNameChar(c) == IsAlpha(c) \/ IsDigit(c) \/ c = "_"

StartsWith(s, p) == Len(s) >= Len(p) /\ SubSeq(s, 1, Len(p)) = p

\* str(n) for n >= 0
RECURSIVE IntText(_)
IntText(n) ==
    IF n < 10 THEN <<DigitChars[n + 1]>>
    ELSE IntText(n \div 10) \o <<DigitChars[(n % 10) + 1]>>

\* int(s) for a string of digits
RECURSIVE TextInt(_)
TextInt(s) ==
    IF Len(s) = 0 THEN 0
    ELSE 10 * TextInt(SubSeq(s, 1, Len(s) - 1)) + DigitVal(s[Len(s)])

\* str.zfill(width)
RECURSIVE ZFill(_, _)
ZFill(s, width) == IF Len(s) >= width THEN s ELSE ZFill(<<"0">> \o s, width)

\* the length of the longest suffix of s made of digits
RECURSIVE TrailingDigits(_)
TrailingDigits(s) ==
    IF Len(s) = 0 \/ ~IsDigit(s[Len(s)]) THEN 0
    ELSE 1 + TrailingDigits(SubSeq(s, 1, Len(s) - 1))

Max(a, b) == IF a >= b THEN a ELSE b

Min(a, b) == IF a <= b THEN a ELSE b

SetMax(S) == CHOOSE x \in S : \A y \in S : y <= x

SetMin(S) == CHOOSE x \in S : \A y \in S : x <= y

Range(s) == {s[i] : i \in 1..Len(s)}

\* re.sub(r'[^A-Za-z0-9_]', '_', name), a "WPT_" prefix unless the first
\* character is a letter, cut to 32 characters
SanitizeName(name) ==
    LET s == [i \in 1..Len(name) |-> IF IsNameChar(name[i]) THEN name[i] ELSE "_"]
        t == IF Len(s) = 0 \/ ~IsAlpha(s[1]) THEN <<"W", "P", "T", "_">> \o s ELSE s
    IN  SubSeq(t, 1, Min(Len(t), 32))

(***************************************************************************)
(* Stamps: _stamp writes H:MM:SS.ss>, _parse_ts reads it back.             *)
(***************************************************************************)
NoTime == -1

\* _stamp: the hour, minute and second fields of the text
Stamp(total) ==
    LET h == total \div 3600
        m == (total % 3600) \div 60
    IN  [h |-> h, m |-> m, s |-> total - 60 * m - 3600 * h]

\* _TS_RE matches digits only: a stamp with a signed hour does not parse
ParseTs(ln) ==
    IF ln.stamp.h < 0 THEN NoTime
    ELSE ln.stamp.h * 3600 + ln.stamp.m * 60 + ln.stamp.s

(***************************************************************************)
(* Lines of the scenario file.                                             *)
(***************************************************************************)
NoText == <<>>

NoLevel == -1

Line(stamp, cmd, acid, wpt, fl) ==
    [stamp |-> stamp, cmd |-> cmd, acid |-> acid, wpt |-> wpt, fl |-> fl]

\* "0:00:00.00>HOLD\n" and "0:00:00.00>ASAS ON\n"
HoldLine == Line(Stamp(0), "HOLD", NoText, NoText, NoLevel)

AsasLine == Line(Stamp(0), "ASAS ON", NoText, NoText, NoLevel)

HeaderLines == <<HoldLine, AsasLine>>

\* the lines "<stamp><acid> AT <fix> DO ..." start with the identifier
TriggerCmds == {"AT_ALT0", "AT_DEL"}

\* ln.strip().startswith("0:") and (">HOLD" in ln or ">ASAS ON" in ln).
\* The only ">" of a line ends its stamp; the text after it is the command
\* word or, on a trigger line, the identifier.
IsHeaderLine(ln) ==
    /\ ln.stamp.h = 0
    /\ \/ ln.cmd = "HOLD"
       \/ ln.cmd = "ASAS ON"
       \/ ln.cmd \in TriggerCmds /\ StartsWith(ln.acid, <<"H", "O", "L", "D">>)

\* the stamped lines of `lines` whose time is in T, by (time, original index)
RECURSIVE SortByTime(_, _)
SortByTime(lines, T) ==
    IF T = {} THEN <<>>
    ELSE LET t == SetMin(T)
         IN  SelectSeq(lines, LAMBDA ln : ParseTs(ln) = t)
                 \o SortByTime(lines, T \ {t})

\* _sort_scn_file: the header lines, the stamped lines by time, the rest
SortScnLines(lines) ==
    LET header == SelectSeq(lines, IsHeaderLine)
        stamped == SelectSeq(lines, LAMBDA ln : ~IsHeaderLine(ln) /\ ParseTs(ln) # NoTime)
        nonstamped == SelectSeq(lines, LAMBDA ln : ~IsHeaderLine(ln) /\ ParseTs(ln) = NoTime)
    IN  header \o SortByTime(stamped, {ParseTs(ln) : ln \in Range(stamped)})
            \o nonstamped

\* the file as a value: absent, or its lines
NoFile == [exists |-> FALSE, lines |-> <<>>]

File(lines) == [exists |-> TRUE, lines |-> lines]

\* _sort_scn_file on a path: a file that cannot be read is left alone
SortScnFile(f) == IF f.exists THEN File(SortScnLines(f.lines)) ELSE f

(***************************************************************************)
(* _sort_scn_file on a file of any text.  f.readlines() gives each line    *)
(* with its "\n", except a last line that has none, and f.writelines(out)  *)
(* writes the lines one after the other: a line without "\n" that is not   *)
(* written last runs into the line written after it.  A line of the file   *)
(* is the sequence of the texts it is made of, one text unless lines have  *)
(* run together; nl tells whether the last line ends with "\n".            *)
(***************************************************************************)
TextFile(rows, nl) == [exists |-> TRUE, rows |-> rows, nl |-> nl]

\* ">HOLD" in ln or ">ASAS ON" in ln, for one text
HoldText(ln) ==
    \/ ln.cmd = "HOLD"
    \/ ln.cmd = "ASAS ON"
    \/ ln.cmd \in TriggerCmds /\ StartsWith(ln.acid, <<"H", "O", "L", "D">>)

\* line 384 on a line of the file
RowIsHeader(r) == r[1].stamp.h = 0 /\ \E i \in 1..Len(r) : HoldText(r[i])

\* _parse_ts on a line of the file: _TS_RE matches at its start
RowTs(r) == ParseTs(r[1])

\* lines 373 and 382: the lines read, each with whether it ends with "\n"
ReadLines(f) ==
    [i \in 1..Len(f.rows) |-> [row |-> f.rows[i], nl |-> (i < Len(f.rows)) \/ f.nl]]

\* line 393: the stamped items whose time is in T, by (time, original index)
RECURSIVE SortItemsByTime(_, _)
SortItemsByTime(items, T) ==
    IF T = {} THEN <<>>
    ELSE LET t == SetMin(T)
         IN  SelectSeq(items, LAMBDA it : RowTs(it.row) = t)
                 \o SortItemsByTime(items, T \ {t})

\* lines 376-399: out
SortItems(items) ==
    LET header == SelectSeq(items, LAMBDA it : RowIsHeader(it.row))
        stamped == SelectSeq(items, LAMBDA it : ~RowIsHeader(it.row)
                                                  /\ RowTs(it.row) # NoTime)
        nonstamped == SelectSeq(items, LAMBDA it : ~RowIsHeader(it.row)
                                                     /\ RowTs(it.row) = NoTime)
    IN  header \o SortItemsByTime(stamped, {RowTs(it.row) : it \in Range(stamped)})
            \o nonstamped

\* line 403: the lines of the file that writelines(out) leaves
RECURSIVE WriteLines(_)
WriteLines(out) ==
    IF Len(out) = 0 THEN <<>>
    ELSE IF Len(out) = 1 \/ out[1].nl THEN <<out[1].row>> \o WriteLines(Tail(out))
    ELSE WriteLines(<<[row |-> out[1].row \o out[2].row, nl |-> out[2].nl]>>
                        \o Tail(Tail(out)))

\* _sort_scn_file on the text file f
SortScnText(f) ==
    LET out == SortItems(ReadLines(f))
    IN  TextFile(WriteLines(out), IF out = <<>> THEN f.nl ELSE out[Len(out)].nl)

(***************************************************************************)
(* Identifiers in use, and the next free one.                              *)
(***************************************************************************)
\* the group of r">\s*CRE\s+([A-Za-z0-9_-]+)\s*," on one CRE line: the
\* identifier when all of it is in the class, nothing otherwise
CreMatches(ln) ==
    /\ ln.cmd = "CRE"
    /\ Len(ln.acid) > 0
    /\ \A i \in 1..Len(ln.acid) : IsAcidChar(ln.acid[i])

\* _scan_existing_acids
ScanExistingAcids(f) ==
    IF ~f.exists THEN {}
    ELSE {ln.acid : ln \in {l \in Range(f.lines) : CreMatches(l)}}

\* re.fullmatch(r"SC(\d+)", acid)
IsScAcid(acid) ==
    /\ Len(acid) >= 3
    /\ acid[1] = "S" /\ acid[2] = "C"
    /\ TrailingDigits(acid) = Len(acid) - 2

\* a scan for the lowest SC<number> instead of the highest
ScanMinScIndex(f) ==
    LET ns == {TextInt(SubSeq(a, 3, Len(a))) :
                   a \in {b \in ScanExistingAcids(f) : IsScAcid(b)}}
    IN  IF ns = {} THEN 0 ELSE SetMin(ns)

\* _scan_max_sc_index
ScanMaxScIndex(f) ==
    LET ns == {TextInt(SubSeq(a, 3, Len(a))) :
                   a \in {b \in ScanExistingAcids(f) : IsScAcid(b)}}
    IN  IF ns = {} THEN 0 ELSE SetMax(ns)

\* f"SC{n}"
ScAcid(n) == <<"S", "C">> \o IntText(n)

\* _next_unique_acid: the loops stop at the first candidate not in `used`,
\* which is one of the first Cardinality(used) + 1 candidates
NextUniqueAcid(base, used) ==
    IF base \notin used THEN base
    ELSE LET k == TrailingDigits(base)
             tries == 1..(Cardinality(used) + 1)
         IN  IF k > 0
             THEN LET root == SubSeq(base, 1, Len(base) - k)
                      n == TextInt(SubSeq(base, Len(base) - k + 1, Len(base)))
                      cand(i) == root \o ZFill(IntText(n + i), k)
                  IN  cand(SetMin({i \in tries : cand(i) \notin used}))
             ELSE LET cand(i) == base \o <<"_">> \o IntText(i + 1)
                  IN  cand(SetMin({i \in tries : cand(i) \notin used}))

(***************************************************************************)
(* Inputs: the identifiers and the CSV sets the commands are given.        *)
(***************************************************************************)
AB3 == <<"A", "B", "3">>

AB4 == <<"A", "B", "4">>

XY == <<"X", "Y">>

ZZ == <<"Z", "Z">>

A_3 == <<"A", ".", "3">>

HOLD1 == <<"H", "O", "L", "D", "1">>

SC1 == <<"S", "C", "1">>

SC2 == <<"S", "C", "2">>

SC07 == <<"S", "C", "0", "7">>

Row(acid, seq, t, fl, lat, lon) ==
    [acid |-> acid, seq |-> seq, t |-> t, fl |-> fl, lat |-> lat, lon |-> lon]

Meta(acid, actype) == [acid |-> acid, actype |-> actype]

\* A directory of CSV files as _load_files sees it: whether a file with the
\* flights header and one with the points header were found, and their rows.
\* "day1": AB3 cruises (rows out of order), AB4 lands, XY has no waypoints,
\* ZZ has no metadata.  "day2": A.3 has times that go back, HOLD1 lands after
\* three samples.  "half" holds a flights file only, "tracks" a points file
\* only, "empty" holds no CSV.
CsvSets ==
    { [name |-> "day1", found_flights |-> TRUE, found_points |-> TRUE,
       flights_rows |-> <<Meta(AB3, "A320"), Meta(AB4, "B738"), Meta(XY, "C172")>>,
       points_rows |-> <<Row(AB3, 2, 70, 2, 1, 1), Row(AB4, 1, 5, 2, 0, 0),
                         Row(AB3, 1, 65, 2, 0, 0), Row(ZZ, 1, 0, 1, 0, 0),
                         Row(AB4, 2, 9, 0, 1, 1)>>],
      [name |-> "day2", found_flights |-> TRUE, found_points |-> TRUE,
       flights_rows |-> <<Meta(A_3, "A320"), Meta(HOLD1, "B738")>>,
       points_rows |-> <<Row(A_3, 1, 3, 1, 0, 0), Row(A_3, 2, 1, 1, 1, 1),
                         Row(HOLD1, 1, 2, 2, 0, 0), Row(HOLD1, 2, 4, 1, 1, 1),
                         Row(HOLD1, 3, 6, 0, 2, 2)>>],
      [name |-> "half", found_flights |-> TRUE, found_points |-> FALSE,
       flights_rows |-> <<Meta(AB3, "A320")>>, points_rows |-> <<>>],
      [name |-> "tracks", found_flights |-> FALSE, found_points |-> TRUE,
       flights_rows |-> <<>>, points_rows |-> <<Row(XY, 1, 0, 1, 0, 0)>>],
      [name |-> "empty", found_flights |-> FALSE, found_points |-> FALSE,
       flights_rows |-> <<>>, points_rows |-> <<>>] }

(***************************************************************************)
(* Dictionaries in insertion order: sequences of records with field acid.  *)
(***************************************************************************)
Keys(d) == [i \in 1..Len(d) |-> d[i].acid]

HasKey(d, acid) == \E i \in 1..Len(d) : d[i].acid = acid

Lookup(d, acid) == d[CHOOSE i \in 1..Len(d) : d[i].acid = acid]

\* the distinct identifiers of the rows, in order of first appearance
RECURSIVE FirstSeen(_, _)
FirstSeen(rows, seen) ==
    IF rows = <<>> THEN <<>>
    ELSE IF Head(rows).acid \in seen THEN FirstSeen(Tail(rows), seen)
    ELSE <<Head(rows).acid>> \o FirstSeen(Tail(rows), seen \cup {Head(rows).acid})

\* list.sort(key=lambda r: r['seq']): stable
RECURSIVE SortBySeq(_, _)
SortBySeq(plist, S) ==
    IF S = {} THEN <<>>
    ELSE LET q == SetMin(S)
         IN  SelectSeq(plist, LAMBDA p : p.seq = q) \o SortBySeq(plist, S \ {q})

SortPoints(plist) == SortBySeq(plist, {p.seq : p \in Range(plist)})

Point(r) == [seq |-> r.seq, t |-> r.t, fl |-> Max(0, r.fl), lat |-> r.lat, lon |-> r.lon]

\* _build_base_points
BuildBasePoints(points_rows) ==
    LET keys == FirstSeen(points_rows, {})
        of(acid) == SelectSeq(points_rows, LAMBDA r : r.acid = acid)
    IN  [i \in 1..Len(keys) |->
            [acid |-> keys[i],
             pts |-> SortPoints([j \in 1..Len(of(keys[i])) |-> Point(of(keys[i])[j])])]]

\* fl[acid] = {...} for each row: a later row of the same identifier replaces
\* the value and keeps the place
BuildFlights(flights_rows) ==
    LET keys == FirstSeen(flights_rows, {})
        lastrow(acid) ==
            flights_rows[SetMax({j \in 1..Len(flights_rows) : flights_rows[j].acid = acid})]
    IN  [i \in 1..Len(keys) |-> lastrow(keys[i])]

(***************************************************************************)
(* Random numbers.  random.Random(seed) is one of NumStreams fixed         *)
(* streams; random.Random() is any of them.                                *)
(***************************************************************************)
NumStreams == 3

\* the longest file given to the normalisation on its own
MaxLines == 3

NoSeed == -1

Streams == 0..(NumStreams - 1)

\* the streams a generator made from `seed` may be
StreamsOf(seed) == IF seed = NoSeed THEN Streams ELSE {seed % NumStreams}

\* the i-th raw draw of a stream, in 0..4
Raw(st, i) == (st + 2 * i + st * i) % 5

\* rng.sample(acids, k): k of the acids, fixed by the stream
Sample(st, acids, k) ==
    {acids[((st + j) % Len(acids)) + 1] : j \in 0..(k - 1)}

\* int(round(x)) of x = num/den, den > 0: Python rounds halves to even
RoundDiv(num, den) ==
    LET q == num \div den
        r == num % den
    IN  IF 2 * r > den THEN q + 1
        ELSE IF 2 * r < den THEN q
        ELSE IF q % 2 = 0 THEN q ELSE q + 1

\* _draw_noise with the i-th draw of the stream: uniform on {-delta, 0, delta},
\* normal on -2*delta..2*delta clamped to nsig*delta when that is positive
DrawNoise(st, i, delta, dist, ns) ==
    IF delta <= 0 THEN 0
    ELSE IF dist = "uniform" THEN delta * ((Raw(st, i) % 3) - 1)
    ELSE LET x == delta * (Raw(st, i) - 2)
             lim == ns * delta
         IN  IF lim > 0 THEN Max(-lim, Min(lim, x)) ELSE x

\* a call of _draw_noise takes a number from the generator only past its
\* first return
Drawn(delta) == IF delta <= 0 THEN 0 ELSE 1

(***************************************************************************)
(* The waypoints of one generation run: _get_points_for_run.               *)
(***************************************************************************)
NoSubset == [isNone |-> TRUE, acids |-> {}]

Subset(S) == [isNone |-> FALSE, acids |-> S]

\* k = int(round((pct / 100.0) * len(acids))); set(rng_sel.sample(acids, k))
\* if k > 0 else set()
ComputeSubset(st, acids, pct) ==
    LET k == RoundDiv(pct * Len(acids), 100)
    IN  Subset(IF k > 0 THEN Sample(st, acids, k) ELSE {})

\* _should_jitter, with the subset the run holds after its lazy computation.
\* The hash fallback is behind "jitter_subset is not None", which holds
\* whenever 0 < pct < 100 is reached here.
ShouldJitter(acid, on, pct, subset) ==
    IF ~on THEN FALSE
    ELSE IF pct <= 0 THEN FALSE
    ELSE IF pct >= 100 THEN TRUE
    ELSE acid \in subset.acids

\* a loop that perturbs the times and does not raise them to the previous one
RECURSIVE JitterTrackNoClamp(_, _, _, _)
JitterTrackNoClamp(plist, last_t, st, i) ==
    IF plist = <<>> THEN [pts |-> <<>>, i |-> i]
    ELSE LET p == Head(plist)
             i4 == i + Drawn(dt_max) + Drawn(dlat_max) + Drawn(dlon_max) + Drawn(dfl_max)
             q == [p EXCEPT !.t = Max(0, p.t + DrawNoise(st, i, dt_max, jitter_dist, nsig))]
             rest == JitterTrackNoClamp(Tail(plist), q.t, st, i4)
         IN  [pts |-> <<q>> \o rest.pts, i |-> rest.i]

\* the body of the loop over one aircraft's waypoints (lines 277-284), from
\* draw i of the stream on; last_t is NoTime before the first waypoint
RECURSIVE JitterTrack(_, _, _, _)
JitterTrack(plist, last_t, st, i) ==
    IF plist = <<>> THEN [pts |-> <<>>, i |-> i]
    ELSE LET p == Head(plist)
             i1 == i + Drawn(dt_max)
             i2 == i1 + Drawn(dlat_max)
             i3 == i2 + Drawn(dlon_max)
             i4 == i3 + Drawn(dfl_max)
             t0 == Max(0, p.t + DrawNoise(st, i, dt_max, jitter_dist, nsig))
             t1 == IF last_t # NoTime THEN Max(t0, last_t) ELSE t0
             q == [seq |-> p.seq,
                   t |-> t1,
                   fl |-> Max(0, p.fl + DrawNoise(st, i3, dfl_max, jitter_dist, nsig)),
                   lat |-> p.lat + DrawNoise(st, i1, dlat_max, jitter_dist, nsig),
                   lon |-> p.lon + DrawNoise(st, i2, dlon_max, jitter_dist, nsig)]
             rest == JitterTrack(Tail(plist), t1, st, i4)
         IN  [pts |-> <<q>> \o rest.pts, i |-> rest.i]

\* the loop over the aircraft (lines 269-284): every list is sorted, the
\* selected ones are perturbed, all from the one generator rng
RECURSIVE JitterAll(_, _, _, _)
JitterAll(bp, subset, st, i) ==
    IF bp = <<>> THEN <<>>
    ELSE LET a == Head(bp)
             sorted == SortPoints(a.pts)
         IN  IF ShouldJitter(a.acid, jitter_on, jitter_pct, subset)
             THEN LET r == JitterTrack(sorted, NoTime, st, i)
                  IN  <<[acid |-> a.acid, pts |-> r.pts]>>
                          \o JitterAll(Tail(bp), subset, st, r.i)
             ELSE <<[acid |-> a.acid, pts |-> sorted]>>
                      \o JitterAll(Tail(bp), subset, st, i)

\* the subset after the lazy computation of lines 246-251
SubsetForRun(stSel) ==
    IF jitter_on /\ jitter_subset.isNone /\ jitter_pct < 100
    THEN ComputeSubset(stSel, Keys(base_points), jitter_pct)
    ELSE jitter_subset

\* a run that sorts and perturbs the loaded lists themselves
BaseAfterRunInPlace(bp, pts) == pts

\* line 241: the run works on copies of the lists and of their points, and
\* STATE.base_points stays as loaded
BaseAfterRun(bp, pts) == bp

\* _get_points_for_run with the generators rng (stream stNoise) and rng_sel
\* (stream stSel): the points, the subset it leaves in STATE, and the
\* aircraft it perturbed
GetPointsForRun(stNoise, stSel) ==
    IF base_points = <<>> THEN [pts |-> <<>>, subset |-> jitter_subset, sel |-> {}]
    ELSE IF ~jitter_on
    THEN [pts |-> base_points, subset |-> jitter_subset, sel |-> {}]
    ELSE LET sub == SubsetForRun(stSel)
         IN  [pts |-> JitterAll(base_points, sub, stNoise, 1),
              subset |-> sub,
              sel |-> {a \in Range(Keys(base_points)) :
                          ShouldJitter(a, jitter_on, jitter_pct, sub)}]

\* the outcomes of one call of _get_points_for_run: a seeded generator has
\* one stream, an unseeded one any
PointsForRun ==
    {GetPointsForRun(stNoise, stSel) :
         stNoise \in StreamsOf(j_seed), stSel \in StreamsOf(j_seed)}

(***************************************************************************)
(* The replay writer: _write_rl_scn.                                       *)
(***************************************************************************)
\* lines 421-426: the new identifier of each flight, in the order of
\* STATE.flights; `used` grows with each one, `done` is name_map so far
RECURSIVE NameMap(_, _, _)
NameMap(acids, used, done) ==
    IF acids = <<>> THEN done
    ELSE LET acid == Head(acids)
             vals == {done[i].out : i \in 1..Len(done)}
             new == IF acid \in used \/ acid \in vals
                    THEN NextUniqueAcid(acid, used \cup vals)
                    ELSE acid
         IN  NameMap(Tail(acids), used \cup {new},
                     Append(done, [acid |-> acid, out |-> new]))

\* _fmt_alt_token: "0", or "FL<n>"
AltToken(fl) == IF fl <= 0 THEN 0 ELSE fl

\* lines 432-469: the lines of one aircraft that has waypoints, given its
\* stamp and the names of its two fixes
LinesOf(acid_out, segs, autodel_on, stamp0, last_wptname, pen_wptname) ==
    LET n == Len(segs)
        r0 == segs[1]
        lastp == segs[n]
        last_is_landing == (lastp.fl = 0)
        trigger_on_last == last_is_landing \/ autodel_on
        has_last == trigger_on_last
        has_pen == last_is_landing /\ n >= 2
        addwpt(idx) ==
            LET r == segs[idx]
            IN  IF idx = n /\ trigger_on_last /\ has_last
                THEN Line(stamp0, "ADDWPT", acid_out, last_wptname, AltToken(r.fl))
                ELSE IF idx = n - 1 /\ last_is_landing /\ has_pen
                THEN Line(stamp0, "ADDWPT", acid_out, pen_wptname, AltToken(r.fl))
                ELSE Line(stamp0, "ADDWPT", acid_out, NoText, AltToken(r.fl))
    IN  <<Line(stamp0, "CRE", acid_out, NoText, r0.fl)>>
        \o (IF has_last
            THEN <<Line(stamp0, "DEFWPT", NoText, last_wptname, NoLevel)>> ELSE <<>>)
        \o (IF has_pen
            THEN <<Line(stamp0, "DEFWPT", NoText, pen_wptname, NoLevel)>> ELSE <<>>)
        \o [k \in 1..(n - 1) |-> addwpt(k + 1)]
        \o <<Line(stamp0, "LNAV", acid_out, NoText, NoLevel),
             Line(stamp0, "VNAV", acid_out, NoText, NoLevel)>>
        \o (IF has_pen
            THEN <<Line(stamp0, "AT_ALT0", acid_out, pen_wptname, NoLevel)>> ELSE <<>>)
        \o (IF has_last
            THEN <<Line(stamp0, "AT_DEL", acid_out, last_wptname, NoLevel)>> ELSE <<>>)

\* a writer whose routing instructions all give raw coordinates
AircraftLinesRawRoute(acid_out, segs, autodel_on) ==
    LET lines == LinesOf(acid_out, segs, autodel_on, Stamp(segs[1].t),
                         SanitizeName(acid_out \o <<"_", "D", "E", "S", "T">>),
                         SanitizeName(acid_out \o <<"_", "A", "P", "P">>))
    IN  [i \in 1..Len(lines) |->
             IF lines[i].cmd = "ADDWPT" THEN [lines[i] EXCEPT !.wpt = NoText]
             ELSE lines[i]]

\* a writer that takes auto-delete as enabled whatever the setting
AircraftLinesAlwaysDel(acid_out, segs, autodel_on) ==
    LinesOf(acid_out, segs, TRUE, Stamp(segs[1].t),
            SanitizeName(acid_out \o <<"_", "D", "E", "S", "T">>),
            SanitizeName(acid_out \o <<"_", "A", "P", "P">>))

\* lines 433, 446 and 450: stamp0 = _stamp(t0) and the fix names
AircraftLines(acid_out, segs, autodel_on) ==
    LinesOf(acid_out, segs, autodel_on, Stamp(segs[1].t),
            SanitizeName(acid_out \o <<"_", "D", "E", "S", "T">>),
            SanitizeName(acid_out \o <<"_", "A", "P", "P">>))

\* a writer that stops after the first flight it writes
WrittenFirst(fl, points) ==
    LET w == SelectSeq(fl, LAMBDA m : HasKey(points, m.acid))
    IN  SubSeq(w, 1, Min(1, Len(w)))

\* line 431: the flights that are written, those with at least one waypoint
Written(fl, points) ==
    SelectSeq(fl, LAMBDA m : HasKey(points, m.acid) /\ Lookup(points, m.acid).pts # <<>>)

\* lines 428-469: the lines of the batch, flight by flight
RECURSIVE BatchLines(_, _, _, _)
BatchLines(fl, points, names, autodel_on) ==
    IF fl = <<>> THEN <<>>
    ELSE AircraftLines(Lookup(names, Head(fl).acid).out,
                       Lookup(points, Head(fl).acid).pts, autodel_on)
             \o BatchLines(Tail(fl), points, names, autodel_on)

\* _write_rl_scn(out_path, append) with the points of the run: the file it
\* leaves and name_map
WriteRlScn(f, append, points) ==
    LET start == IF append THEN f.lines ELSE HeaderLines
        used == IF append THEN ScanExistingAcids(f) ELSE {}
        names == NameMap(Keys(flights), used, <<>>)
        body == BatchLines(Written(flights, points), points, names, autodel)
    IN  [file |-> SortScnFile(File(start \o body)), names |-> names]

\* _write_rl_scn when the file system may fail.  io is "ok", or the call
\* that raises OSError: "sort_read" (line 372, the file is left as written),
\* "sort_open" (line 402, the same) or "sort_write" (line 403, after
\* open(path, "w") has emptied the file; kept lines were written before it).
\* _sort_scn_file catches all three (lines 374-375 and 404-405).
WriteRlScnIo(f, append, points, io, kept) ==
    LET start == IF append THEN f.lines ELSE HeaderLines
        used == IF append THEN ScanExistingAcids(f) ELSE {}
        names == NameMap(Keys(flights), used, <<>>)
        body == BatchLines(Written(flights, points), points, names, autodel)
        sorted == SortScnLines(start \o body)
    IN  [file |-> IF io = "ok" THEN File(sorted)
                  ELSE IF io = "sort_write"
                  THEN File(SubSeq(sorted, 1, Min(kept, Len(sorted))))
                  ELSE File(start \o body),
         names |-> names]

(***************************************************************************)
(* The encounter writer: _write_gc_scn.  Both aircraft spawn at time 0;    *)
(* the sampled speeds, levels and bearings are not part of the line        *)
(* records.                                                                *)
(***************************************************************************)
GcLines(acid1, acid2) ==
    LET stamp0 == Stamp(0)
        ac(a) == <<Line(stamp0, "CRE", a, NoText, NoLevel),
                   Line(stamp0, "ADDWPT", a, NoText, NoLevel),
                   Line(stamp0, "LNAV", a, NoText, NoLevel),
                   Line(stamp0, "VNAV", a, NoText, NoLevel)>>
    IN  ac(acid1) \o ac(acid2)

\* an encounter writer that starts every batch with the header
WriteGcScnWithHeader(f, append, acid1, acid2) ==
    File((IF append THEN f.lines ELSE <<>>) \o HeaderLines \o GcLines(acid1, acid2))

\* lines 577-592: mode "a" adds to the file, mode "w" starts it with the header
WriteGcScn(f, append, acid1, acid2) ==
    File((IF append THEN f.lines ELSE HeaderLines) \o GcLines(acid1, acid2))

\* lines 1000-1030 of SATG_RC_CIRCLE: n encounters, the first with `append`
\* as given and the later ones appended; the file and the identifiers written
RECURSIVE CircleLoop(_, _, _)
CircleLoop(f, append, n) ==
    IF n = 0 THEN [file |-> f, ids |-> <<>>]
    ELSE LET nmax == ScanMaxScIndex(f)
             acid1 == IF append THEN ScAcid(nmax + 1) ELSE SC1
             acid2 == IF append THEN ScAcid(nmax + 2) ELSE SC2
             rest == CircleLoop(WriteGcScn(f, append, acid1, acid2), TRUE, n - 1)
         IN  [file |-> rest.file, ids |-> <<acid1, acid2>> \o rest.ids]

NumCre(f) == Len(SelectSeq(f.lines, LAMBDA ln : ln.cmd = "CRE"))

(***************************************************************************)
(* The values an encounter is written with: lines 526-571 of               *)
(* _write_gc_scn.  Speeds are whole numbers of 1/2000 kt, so that 5% of a  *)
(* speed given to 0.01 kt is exact; bearings and angles are tenths of a    *)
(* degree; levels are flight levels.                                       *)
(***************************************************************************)
Kt(whole, hundredths) == (whole * 100 + hundredths) * 20

Deg(whole, tenths) == whole * 10 + tenths

\* "{cas:.1f}": the speed as written, in tenths of a knot
Fmt1f(cas) == RoundDiv(cas, 200)

\* lines 528-530: the crossing angle, the caller's only for a crossing
AngleFor(typ, angle, angle_in) ==
    IF angle_in # {} /\ typ = "cross" THEN CHOOSE a \in angle_in : TRUE ELSE angle

\* lines 532-535: the two speeds, corrected for an overtake
OvertakeSpeeds(typ, cas1, cas2) ==
    IF typ = "overtake" /\ cas2 <= cas1
    THEN LET lo == Min(cas1, cas2)
             hi == Max(cas1, cas2)
         IN  <<lo, hi + Max(Kt(5, 0), hi \div 20)>>
    ELSE <<cas1, cas2>>

\* a second aircraft that always flies the reciprocal course
Bearing2Reciprocal(typ, brg1, angle) == (brg1 + Deg(180, 0)) % Deg(360, 0)

\* lines 537-545: the course of the second aircraft
Bearing2(typ, brg1, angle) ==
    IF typ = "headon" THEN (brg1 + Deg(180, 0)) % Deg(360, 0)
    ELSE IF typ = "cross" THEN (brg1 + angle) % Deg(360, 0)
    ELSE IF typ = "overtake" THEN brg1
    ELSE (brg1 + Deg(180, 0)) % Deg(360, 0)

\* lines 570-571: int(round(brg)) % 360, whole degrees
Heading(brg) == RoundDiv(brg, 10) % 360

\* lines 557 and 561: the level at the closest point
CpaLevel(fl_cpa, fl1, fl2) ==
    IF fl_cpa # {} THEN CHOOSE l \in fl_cpa : TRUE ELSE RoundDiv(fl1 + fl2, 2)

\* lines 562-563: a level equal to the target moves by 10
Nudged(flc, fl1, fl2) ==
    <<IF fl1 = flc THEN fl1 + 10 ELSE fl1, IF fl2 = flc THEN fl2 - 10 ELSE fl2>>

\* start levels that are nudged and never pushed
StartLevelsNudgedOnly(altmode, flc, fl1, fl2) ==
    IF altmode = "level" THEN <<flc, flc>> ELSE Nudged(flc, fl1, fl2)

\* lines 556-567: the two start levels
StartLevels(altmode, flc, fl1, fl2) ==
    IF altmode = "level" THEN <<flc, flc>>
    ELSE LET n == Nudged(flc, fl1, fl2)
         IN  IF (n[1] > flc /\ n[2] < flc) \/ (n[2] > flc /\ n[1] < flc)
             THEN n
             ELSE <<IF n[1] <= flc THEN flc + 10 ELSE n[1],
                    IF n[2] >= flc THEN flc - 10 ELSE n[2]>>

\* the values written for a call with type typ, altitude mode altmode and the
\* optional fl_cpa and angle_in, when _gc_sample returns s
GcValues(typ, altmode, fl_cpa, angle_in, s) ==
    LET angle == AngleFor(typ, s.angle, angle_in)
        cas == OvertakeSpeeds(typ, s.cas1, s.cas2)
        brg2 == Bearing2(typ, s.brg1, angle)
        flc == CpaLevel(fl_cpa, s.fl1, s.fl2)
        fls == StartLevels(altmode, flc, s.fl1, s.fl2)
    IN  [typ |-> typ, altmode |-> altmode, fl_cpa |-> fl_cpa, angle_in |-> angle_in,
         s |-> s, angle |-> angle, cas1 |-> cas[1], cas2 |-> cas[2],
         brg2 |-> brg2, hdg1 |-> Heading(s.brg1), hdg2 |-> Heading(brg2),
         flc |-> flc, fl1_start |-> fls[1], fl2_start |-> fls[2],
         cre_cas1 |-> Fmt1f(cas[1]), cre_cas2 |-> Fmt1f(cas[2])]

\* no encounter written
NoValues == [typ |-> "none", altmode |-> "none"]

(***************************************************************************)
(* The sampling ranges of the encounters: STATE.gc_ranges, one pair        *)
(* (lo, hi) for each key, and _parse_range.  Range texts hold whole        *)
(* numbers.                                                                *)
(***************************************************************************)
RangeKeys == {"cas1", "cas2", "fl1", "fl2", "brg1", "angle"}

\* lines 170-177
DefaultRanges ==
    [cas1 |-> <<220, 280>>, cas2 |-> <<220, 280>>, fl1 |-> <<290, 370>>,
     fl2 |-> <<290, 370>>, brg1 |-> <<0, 359>>, angle |-> <<90, 90>>]

\* float(s) succeeds: here, s is a whole number in digits
IsNumber(s) == Len(s) > 0 /\ \A i \in 1..Len(s) : IsDigit(s[i])

\* the place of the first ":" of s, 0 if there is none
ColonAt(s) ==
    IF \E i \in 1..Len(s) : s[i] = ":"
    THEN SetMin({i \in 1..Len(s) : s[i] = ":"}) ELSE 0

\* the text is well formed: a number, or two numbers with ":" between them
WellFormedRange(s) ==
    IF ColonAt(s) = 0 THEN IsNumber(s)
    ELSE /\ IsNumber(SubSeq(s, 1, ColonAt(s) - 1))
         /\ IsNumber(SubSeq(s, ColonAt(s) + 1, Len(s)))

\* _parse_range(text, cur); text is {} for None
ParseRange(text, cur) ==
    IF text = {} THEN cur
    ELSE LET s == CHOOSE x \in text : TRUE
             c == ColonAt(s)
         IN  IF Len(s) = 0 THEN cur
             ELSE IF c = 0
             THEN IF IsNumber(s) THEN <<TextInt(s), TextInt(s)>> ELSE cur
             ELSE LET a == SubSeq(s, 1, c - 1)
                      b == SubSeq(s, c + 1, Len(s))
                  IN  IF IsNumber(a) /\ IsNumber(b)
                      THEN <<Min(TextInt(a), TextInt(b)), Max(TextInt(a), TextInt(b))>>
                      ELSE cur

(***************************************************************************)
(* Sampling: _rand_in and _gc_sample, and the draws of the loop of         *)
(* SATG_RC_CIRCLE.  rng.uniform and rng.random are the raw draw scaled     *)
(* into the range; rng.choice is the raw draw modulo the length.           *)
(***************************************************************************)
\* _rand_in with the i-th draw of the stream: lo when the range is a point
RandIn(st, i, rng) ==
    IF rng[1] = rng[2] THEN rng[1]
    ELSE rng[1] + ((rng[2] - rng[1]) * Raw(st, i)) \div 4

\* the draws _rand_in takes from the generator
Takes(rng) == IF rng[1] = rng[2] THEN 0 ELSE 1

\* _gc_sample with a generator on stream st and the ranges r: six calls of
\* _rand_in in the order cas1, cas2, fl1, fl2, brg1, angle
GcSampleFrom(st, r) ==
    LET i2 == Takes(r.cas1)
        i3 == i2 + Takes(r.cas2)
        i4 == i3 + Takes(r.fl1)
        i5 == i4 + Takes(r.fl2)
        i6 == i5 + Takes(r.brg1)
    IN  [cas1 |-> Kt(RandIn(st, 0, r.cas1), 0), cas2 |-> Kt(RandIn(st, i2, r.cas2), 0),
         fl1 |-> RandIn(st, i3, r.fl1), fl2 |-> RandIn(st, i4, r.fl2),
         brg1 |-> Deg(RandIn(st, i5, r.brg1) % 360, 0),
         angle |-> Deg(RandIn(st, i6, r.angle), 0)]

CircleTypes == <<"headon", "cross", "overtake">>

CircleModes == <<"level", "altcross">>

\* lines 1000-1029 for n encounters with the ranges r: the generator of the
\* call is on stream st and has given i numbers; ss[k] is the stream of the
\* generator _gc_sample makes for the k-th encounter left to write.  The
\* draws are the type, the altitude mode of a mix, tcpa, the radius, theta,
\* the angle of a crossing, and the two aircraft types.
RECURSIVE CircleValues(_, _, _, _, _, _)
CircleValues(st, i, n, altmode, r, ss) ==
    IF n = 0 THEN <<>>
    ELSE LET typ == CircleTypes[(Raw(st, i) % 3) + 1]
             iam == i + 1
             am_i == IF altmode = "mix" THEN CircleModes[(Raw(st, iam) % 2) + 1]
                     ELSE altmode
             iang == iam + (IF altmode = "mix" THEN 1 ELSE 0) + 3
             angle_i == IF typ = "cross" THEN {Deg(RandIn(st, iang, r.angle), 0)}
                        ELSE {}
             inext == iang + (IF typ = "cross" THEN Takes(r.angle) ELSE 0) + 2
         IN  <<GcValues(typ, am_i, {}, angle_i, GcSampleFrom(ss[1], r))>>
             \o CircleValues(st, inext, n - 1, altmode, r, Tail(ss))

(***************************************************************************)
(* The speed conversion: _isa_tp and _gs_to_cas_kt, in double precision.   *)
(* A positive number is its decimal logarithm in thousandths (lg); a       *)
(* product adds logarithms and a power multiplies them.  What is followed  *)
(* exactly is the range of the doubles: a product past the largest double  *)
(* is inf, math.pow past it raises OverflowError, a product under the      *)
(* smallest double is 0, and x + 1.0 is 1.0 for x up to 2^-53 and x from   *)
(* 2^53.  1 + x for the x between is kept as "1+" with the logarithm of x, *)
(* and its powers are taken to first order, (1 + x)^e = 1 + e*x; the       *)
(* speeds of CasSpeeds give x below 0.01 or above 2^53.                    *)
(***************************************************************************)
\* the largest double, 1.797e308
LgMax == 308255

\* the smallest positive double, 4.94e-324
LgMin == -323306

\* 2^-53
LgEps == -15955

Zero == [k |-> "zero", lg |-> 0]

One == [k |-> "one", lg |-> 0]

Inf == [k |-> "inf", lg |-> 0]

Raised == [k |-> "raise", lg |-> 0]

\* the double nearest to 10^(lg/1000)
Num(lg) ==
    IF lg > LgMax THEN Inf ELSE IF lg < LgMin THEN Zero ELSE [k |-> "num", lg |-> lg]

\* a * b of two doubles that are 0, positive or inf
FMul(a, b) ==
    IF a.k = "raise" \/ b.k = "raise" THEN Raised
    ELSE IF a.k = "zero" \/ b.k = "zero" THEN Zero
    ELSE IF a.k = "inf" \/ b.k = "inf" THEN Inf
    ELSE Num(a.lg + b.lg)

\* 1.0 + x
OnePlus(x) ==
    IF x.k \in {"raise", "inf"} THEN x
    ELSE IF x.k = "zero" \/ x.lg <= LgEps THEN One
    ELSE IF x.lg >= -LgEps THEN x
    ELSE [k |-> "1+", lg |-> x.lg]

\* y ** (num/den) for y = 1.0, 1 + x, a large double or inf; lge is
\* lg(num/den)
FPow(y, num, den, lge) ==
    IF y.k \in {"raise", "inf", "one"} THEN y
    ELSE IF y.k = "1+" THEN OnePlus(Num(y.lg + lge))
    ELSE IF (y.lg * num) \div den > LgMax THEN Raised
    ELSE Num((y.lg * num) \div den)

\* y - 1.0
MinusOne(y) ==
    IF y.k \in {"raise", "inf"} THEN y
    ELSE IF y.k = "one" THEN Zero
    ELSE Num(y.lg)

\* math.sqrt
FSqrt(a) == IF a.k = "num" THEN Num(a.lg \div 2) ELSE a

\* lg of the constants of lines 26-30 and 50-52: T0/T_TROP, P0, A0, MS2KT,
\* 0.2, 5.0, 3.5
LgT0OverTtrop == 124

LgP0 == 5006

LgA0 == 2532

LgMs2Kt == 289

LgFifth == -699

LgFive == 699

LgSevenHalves == 544

\* the altitude in metres: flight_level * 100 * FT2M
AltM(fl) == (fl * 3048) \div 100

\* lg(T/T0) in the troposphere, T = T0 - L*h: -(u + u^2/2 + ... + u^6/6) /
\* ln 10 with u = L*h/T0 in ten-thousandths
LgTempRatio(fl) ==
    LET u == (AltM(fl) * 2256) \div 10000
        u2 == (u * u) \div 10000
        u3 == (u2 * u) \div 10000
        u4 == (u3 * u) \div 10000
        u5 == (u4 * u) \div 10000
        u6 == (u5 * u) \div 10000
        sum == u + u2 \div 2 + u3 \div 3 + u4 \div 4 + u5 \div 5 + u6 \div 6
    IN  -((sum * 4343) \div 100000)

\* _isa_tp: lg(T/T0) and the pressure.  Up to H_TROP the pressure is
\* P0*(T/T0)**(G0/(R*L)), the exponent 5.25588; above it is the pressure at
\* H_TROP (lg 4.355) times exp(-G0*(h - H_TROP)/(R*T)), 0.06848
\* thousandths of lg for each metre
IsaTp(fl) ==
    IF AltM(fl) <= 11000
    THEN [lgT |-> LgTempRatio(fl),
          p |-> Num(LgP0 + (LgTempRatio(fl) * 5256) \div 1000)]
    ELSE [lgT |-> -LgT0OverTtrop,
          p |-> Num(4355 - ((AltM(fl) - 11000) * 6848) \div 100000)]

\* _gs_to_cas_kt for a ground speed of 10^(lg_gs/1000) kt
GsToCasKt(lg_gs, fl) ==
    LET tas == Num(lg_gs - LgMs2Kt)
        isa == IsaTp(fl)
        lgM == tas.lg - (LgA0 + isa.lgT \div 2)
        M2 == FMul(Num(lgM), Num(lgM))
        qc == FMul(isa.p, MinusOne(FPow(OnePlus(FMul(Num(LgFifth), M2)), 7, 2,
                                        LgSevenHalves)))
        qcp == OnePlus(FMul(qc, Num(-LgP0)))
        cas == FMul(Num(LgA0),
                    FSqrt(FMul(Num(LgFive), MinusOne(FPow(qcp, 2, 7, -LgSevenHalves)))))
        rho == FMul(isa.p, Num(-LgP0 - isa.lgT))
        low == FMul(tas, FSqrt(rho))
    IN  FMul(IF lgM < -1000 THEN low ELSE cas, Num(LgMs2Kt))

(***************************************************************************)
(* Two sessions working on one scenario file.  A generation call is a      *)
(* sequence of file operations: the scan of the identifiers, the write of  *)
(* the batch (flushed when the file is closed), and for a replay the read  *)
(* and the rewrite of _sort_scn_file.  calls.proc[p] is the position of    *)
(* session p in its call with the values it holds; overlap, dup and lost   *)
(* record what has happened so far.                                        *)
(***************************************************************************)
Procs == {1, 2}

Idle == [pc |-> "idle", ids |-> <<>>, names |-> <<>>, lines |-> <<>>, buf |-> <<>>]

NoCalls == [proc |-> [p \in Procs |-> Idle], overlap |-> FALSE, dup |-> FALSE,
            lost |-> FALSE]

Busy(p) == calls.proc[p].pc # "idle"

\* two CRE lines of the file name one aircraft
DupCre(f) ==
    \E i, j \in 1..Len(f.lines) :
        i < j /\ f.lines[i].cmd = "CRE" /\ f.lines[j].cmd = "CRE"
              /\ f.lines[i].acid = f.lines[j].acid

\* a line of the file before is not in the file after
Dropped(before, after) == Range(before.lines) \ Range(after.lines) # {}

\* calls after a file operation of session p that leaves it as c and turns
\* the file from `before` into `after`
Stepped(p, c, before, after) ==
    [proc |-> [calls.proc EXCEPT ![p] = c],
     overlap |-> calls.overlap \/ \E q \in Procs \ {p} : Busy(q),
     dup |-> calls.dup \/ DupCre(after),
     lost |-> calls.lost \/ Dropped(before, after)]

\* an append that takes SC1 and SC2 without looking at the file
DefaultIdsFixed(f) == <<SC1, SC2>>

\* lines 858-861: the identifiers of an append with the default identifiers
DefaultIds(f) ==
    LET nmax == ScanMaxScIndex(f)
    IN  <<ScAcid(nmax + 1), ScAcid(nmax + 2)>>

(***************************************************************************)
(* The state after construction (_SATGState.__init__), no scenario file.   *)
(***************************************************************************)
Did(op, ok) ==
    [op |-> op, ok |-> ok, append |-> FALSE, given |-> <<>>, pts |-> <<>>,
     sel |-> {}, names |-> <<>>, ids |-> <<>>, enc |-> NoValues, keys |-> {},
     texts |-> {}, used |-> <<>>, raised |-> FALSE, io |-> "ok",
     seed |-> NoSeed, outs |-> {}, cas |-> <<>>]

Init ==
    /\ flights = <<>>
    /\ base_points = <<>>
    /\ loaded_ok = FALSE
    /\ jitter_on = FALSE
    /\ j_seed = NoSeed
    /\ jitter_pct = 100
    /\ jitter_subset = NoSubset
    /\ dt_max = 0 /\ dlat_max = 0 /\ dlon_max = 0 /\ dfl_max = 0
    /\ jitter_dist = "normal"
    /\ nsig = 0
    /\ autodel = TRUE
    /\ gc_last_acids = <<>>
    /\ gc_ranges = DefaultRanges
    /\ calls = NoCalls
    /\ scn = NoFile
    /\ last = Did("init", TRUE)

(***************************************************************************)
(* The commands.                                                           *)
(***************************************************************************)
\* a load that keeps whatever kind it found
LoadPartial(cs) ==
    /\ base_points' = IF cs.found_points THEN BuildBasePoints(cs.points_rows)
                                         ELSE base_points
    /\ flights' = IF cs.found_flights THEN BuildFlights(cs.flights_rows) ELSE flights
    /\ loaded_ok' = (loaded_ok \/ (cs.found_flights /\ cs.found_points))
    /\ last' = Did("RL_LOAD", cs.found_flights /\ cs.found_points)
    /\ UNCHANGED <<calls, gc_ranges, jitterVars, autodel, gc_last_acids, scn>>

\* SATG_RL_LOAD / _load_files on the CSV set cs
SATG_RL_LOAD(cs) ==
    /\ IF cs.found_flights /\ cs.found_points
       THEN /\ base_points' = BuildBasePoints(cs.points_rows)
            /\ flights' = BuildFlights(cs.flights_rows)
            /\ loaded_ok' = TRUE
            /\ last' = Did("RL_LOAD", TRUE)
       ELSE /\ UNCHANGED loadVars
            /\ last' = Did("RL_LOAD", FALSE)
    /\ UNCHANGED <<calls, gc_ranges, jitterVars, autodel, gc_last_acids, scn>>

\* an optional argument: {} is None, {v} is the value v
Given(arg, cur) == IF arg = {} THEN cur ELSE CHOOSE v \in arg : TRUE

\* SATG_RL_JITTER
SATG_RL_JITTER(a) ==
    /\ UNCHANGED <<calls, gc_ranges, loadVars, autodel, gc_last_acids, scn>>
    /\ IF a.mode \notin {"on", "off"}
       THEN /\ UNCHANGED jitterVars
            /\ last' = Did("RL_JITTER", FALSE)
       ELSE IF a.mode = "off"
       THEN /\ jitter_on' = FALSE
            /\ j_seed' = Given(a.seed, j_seed)
            /\ UNCHANGED <<jitter_pct, jitter_subset, dt_max, dlat_max, dlon_max,
                           dfl_max, jitter_dist, nsig>>
            /\ last' = Did("RL_JITTER", TRUE)
       ELSE IF a.dist # {} /\ a.dist \cap {"uniform", "normal"} = {}
       THEN /\ jitter_on' = TRUE
            /\ UNCHANGED <<j_seed, jitter_pct, jitter_subset, dt_max, dlat_max,
                           dlon_max, dfl_max, jitter_dist, nsig>>
            /\ last' = Did("RL_JITTER", FALSE)
       ELSE /\ jitter_on' = TRUE
            /\ jitter_dist' = Given(a.dist, jitter_dist)
            /\ j_seed' = Given(a.seed, j_seed)
            /\ dt_max' = Given(a.dt, dt_max)
            /\ dlat_max' = Given(a.dlat, dlat_max)
            /\ dlon_max' = Given(a.dlon, dlon_max)
            /\ dfl_max' = Given(a.dfl, dfl_max)
            /\ nsig' = Given(a.nsig, nsig)
            /\ jitter_pct' = IF a.pct = {} THEN jitter_pct
                             ELSE Max(0, Min(100, Given(a.pct, 0)))
            /\ IF base_points # <<>>
               THEN \E st \in StreamsOf(j_seed') :
                        jitter_subset' = ComputeSubset(st, Keys(base_points), jitter_pct')
               ELSE jitter_subset' = NoSubset
            /\ last' = Did("RL_JITTER", TRUE)

\* SATG_RL_AUTODEL
SATG_RL_AUTODEL(mode) ==
    /\ UNCHANGED <<calls, gc_ranges, loadVars, jitterVars, gc_last_acids, scn>>
    /\ IF mode \notin {"on", "off"}
       THEN /\ UNCHANGED autodel
            /\ last' = Did("RL_AUTODEL", FALSE)
       ELSE /\ autodel' = (mode = "on")
            /\ last' = Did("RL_AUTODEL", TRUE)

\* the body SATG_RL_MAKE and SATG_RL_RUN share: lines 737-746 and 755-765
ReplayGeneration(op, overwrite) ==
    /\ UNCHANGED <<calls, gc_ranges, loadVars, jitter_on, j_seed, jitter_pct, dt_max, dlat_max,
                   dlon_max, dfl_max, jitter_dist, nsig, autodel, gc_last_acids>>
    /\ IF ~loaded_ok
       THEN /\ UNCHANGED <<jitter_subset, scn>>
            /\ last' = Did(op, FALSE)
       ELSE LET append == (overwrite = 0) /\ scn.exists
            IN  /\ append => NumCre(scn) + Len(Written(flights, base_points)) <= MaxCre
                /\ \E run \in PointsForRun :
                       \E w \in {WriteRlScn(scn, append, run.pts)} :
                           /\ jitter_subset' = run.subset
                           /\ scn' = w.file
                           /\ last' = [Did(op, TRUE) EXCEPT
                                           !.append = append, !.pts = run.pts,
                                           !.sel = run.sel, !.names = w.names]

\* SATG_RL_MAKE
SATG_RL_MAKE(overwrite) == ReplayGeneration("RL_MAKE", overwrite)

\* SATG_RL_RUN: the same, then "IC <path>" is sent to the simulator
SATG_RL_RUN(overwrite) == ReplayGeneration("RL_RUN", overwrite)

\* SATG_GC_CRE
SATG_GC_CRE(typ, altmode, acid1, acid2, overwrite) ==
    /\ UNCHANGED <<calls, gc_ranges, loadVars, jitterVars, autodel>>
    /\ IF \/ typ \notin {"headon", "cross", "overtake"}
          \/ altmode \notin {"level", "altcross"}
          \/ overwrite \notin {"0", "1"}
       THEN /\ UNCHANGED <<gc_last_acids, scn>>
            /\ last' = Did("GC_CRE", FALSE)
       ELSE LET append == (overwrite # "1") /\ scn.exists
                bump == append /\ acid1 = SC1 /\ acid2 = SC2
                nmax == ScanMaxScIndex(scn)
                ac1_final == IF bump THEN ScAcid(nmax + 1) ELSE acid1
                ac2_final == IF bump THEN ScAcid(nmax + 2) ELSE acid2
            IN  /\ append => NumCre(scn) + 2 <= MaxCre
                /\ Len(gc_last_acids) + 2 <= MaxGcLast
                /\ scn' = WriteGcScn(scn, append, ac1_final, ac2_final)
                /\ gc_last_acids' = gc_last_acids \o <<ac1_final, ac2_final>>
                /\ last' = [Did("GC_CRE", TRUE) EXCEPT
                                !.append = append, !.given = <<acid1, acid2>>,
                                !.ids = <<ac1_final, ac2_final>>]

\* a call that leaves the ranges as the loop had them
CircleRangesKept(old, over) == over

\* line 1040, "finally: STATE.gc_ranges = old"
CircleRanges(old, over) == old

\* lines 991-998: the ranges in force while the encounters are made; cas, fl
\* and angle are {} or the text given
CircleOverride(r, cas, fl, angle) ==
    [r EXCEPT !.cas1 = ParseRange(cas, r.cas1), !.cas2 = ParseRange(cas, r.cas1),
              !.fl1 = ParseRange(fl, r.fl1), !.fl2 = ParseRange(fl, r.fl1),
              !.angle = ParseRange(angle, r.angle)]

\* SATG_RC_CIRCLE with n encounters; types_ok: every type of the list is one
\* of headon, cross, overtake; cas, fl, angle: the range texts given; done:
\* the encounters written before a write raises (n when none does)
RcCircle(n, radius_ok, types_ok, altmode, overwrite, cas, fl, angle, done) ==
    /\ UNCHANGED <<calls, loadVars, jitterVars, autodel>>
    /\ IF \/ n <= 0 \/ ~radius_ok
          \/ ~types_ok
          \/ altmode \notin {"level", "altcross", "mix"}
          \/ overwrite \notin {"0", "1"}
       THEN /\ UNCHANGED <<gc_last_acids, gc_ranges, scn>>
            /\ last' = [Did("RC_CIRCLE", FALSE) EXCEPT !.texts = cas \cup fl \cup angle]
       ELSE LET append == (overwrite # "1") /\ scn.exists
                start == IF overwrite = "1" THEN NoFile ELSE scn
                over == CircleOverride(gc_ranges, cas, fl, angle)
            IN  /\ append => NumCre(scn) + 2 * n <= MaxCre
                /\ Len(gc_last_acids) + 2 * n <= MaxGcLast
                /\ done \in 0..n
                /\ \E r \in {CircleLoop(start, append, done)} :
                       /\ scn' = r.file
                       /\ gc_last_acids' = gc_last_acids \o r.ids
                       /\ gc_ranges' = CircleRanges(gc_ranges, over)
                       /\ last' = [Did("RC_CIRCLE", done = n) EXCEPT
                                       !.append = append, !.ids = r.ids,
                                       !.texts = cas \cup fl \cup angle,
                                       !.used = over, !.raised = (done < n)]

\* SATG_RC_CIRCLE without range arguments, every write succeeding
SATG_RC_CIRCLE(n, radius_ok, types_ok, altmode, overwrite) ==
    RcCircle(n, radius_ok, types_ok, altmode, overwrite, {}, {}, {}, n)

\* SATG_GC_CRE with the default identifiers and overwrite=1, when _gc_sample
\* returns s: the file is written anew and the values of the encounter are
\* those of GcValues
GcEncounter(typ, altmode, fl_cpa, angle_in, s) ==
    /\ typ \in {"headon", "cross", "overtake"}
    /\ altmode \in {"level", "altcross"}
    /\ UNCHANGED <<calls, gc_ranges, loadVars, jitterVars, autodel>>
    /\ Len(gc_last_acids) + 2 <= MaxGcLast
    /\ scn' = WriteGcScn(scn, FALSE, SC1, SC2)
    /\ gc_last_acids' = gc_last_acids \o <<SC1, SC2>>
    /\ last' = [Did("GC_CRE", TRUE) EXCEPT
                    !.given = <<SC1, SC2>>, !.ids = <<SC1, SC2>>,
                    !.enc = GcValues(typ, altmode, fl_cpa, angle_in, s)]

\* SATG_RL_MAKE when the file system may fail: io as in WriteRlScnIo, or
\* "open", the open of line 410 raising, which ends the call with the
\* exception and the file untouched
RlMakeIo(overwrite, io, kept) ==
    /\ UNCHANGED <<calls, gc_ranges, loadVars, jitter_on, j_seed, jitter_pct, dt_max, dlat_max,
                   dlon_max, dfl_max, jitter_dist, nsig, autodel, gc_last_acids>>
    /\ IF ~loaded_ok
       THEN /\ UNCHANGED <<jitter_subset, scn>>
            /\ last' = Did("RL_MAKE", FALSE)
       ELSE LET append == (overwrite = 0) /\ scn.exists
            IN  /\ append => NumCre(scn) + Len(Written(flights, base_points)) <= MaxCre
                /\ IF io = "open"
                   THEN /\ UNCHANGED <<jitter_subset, scn>>
                        /\ last' = [Did("RL_MAKE", FALSE) EXCEPT
                                        !.append = append, !.raised = TRUE, !.io = io]
                   ELSE \E run \in PointsForRun :
                            \E w \in {WriteRlScnIo(scn, append, run.pts, io, kept)} :
                                /\ jitter_subset' = run.subset
                                /\ scn' = w.file
                                /\ last' = [Did("RL_MAKE", TRUE) EXCEPT
                                                !.append = append, !.pts = run.pts,
                                                !.sel = run.sel, !.names = w.names,
                                                !.io = io]

\* SATG_GC_CRE with a valid type and altitude mode and the default
\* identifiers, when the file system may fail: io is "ok", "remove" (os.remove
\* of line 852 raising, caught at line 853) or "open" (the open of line 579
\* raising, which ends the call with the exception)
GcCreIo(overwrite, io) ==
    /\ UNCHANGED <<calls, gc_ranges, loadVars, jitterVars, autodel>>
    /\ overwrite \in {"0", "1"}
    /\ io = "remove" => (overwrite = "1" /\ scn.exists)
    /\ LET append == (overwrite # "1") /\ scn.exists
           nmax == ScanMaxScIndex(scn)
           acid1 == IF append THEN ScAcid(nmax + 1) ELSE SC1
           acid2 == IF append THEN ScAcid(nmax + 2) ELSE SC2
       IN  /\ append => NumCre(scn) + 2 <= MaxCre
           /\ Len(gc_last_acids) + 2 <= MaxGcLast
           /\ IF io = "open"
              THEN /\ scn' = IF overwrite = "1" THEN NoFile ELSE scn
                   /\ UNCHANGED gc_last_acids
                   /\ last' = [Did("GC_CRE", FALSE) EXCEPT
                                   !.append = append, !.raised = TRUE, !.io = io]
              ELSE /\ scn' = WriteGcScn(scn, append, acid1, acid2)
                   /\ gc_last_acids' = gc_last_acids \o <<acid1, acid2>>
                   /\ last' = [Did("GC_CRE", TRUE) EXCEPT
                                   !.append = append, !.given = <<SC1, SC2>>,
                                   !.ids = <<acid1, acid2>>, !.io = io]

\* SATG_RL_MAKE with the files it can leave: one for each pair of generators
\* _get_points_for_run can make from STATE.j_seed
RlMakeSeeded(overwrite) ==
    /\ UNCHANGED <<calls, gc_ranges, loadVars, jitter_on, j_seed, jitter_pct, dt_max, dlat_max,
                   dlon_max, dfl_max, jitter_dist, nsig, autodel, gc_last_acids>>
    /\ IF ~loaded_ok
       THEN /\ UNCHANGED <<jitter_subset, scn>>
            /\ last' = Did("RL_MAKE", FALSE)
       ELSE LET append == (overwrite = 0) /\ scn.exists
            IN  /\ append => NumCre(scn) + Len(Written(flights, base_points)) <= MaxCre
                /\ \E runs \in {PointsForRun} :
                       \E run \in runs :
                           \E w \in {WriteRlScn(scn, append, run.pts)} :
                               /\ jitter_subset' = run.subset
                               /\ scn' = w.file
                               /\ last' = [Did("RL_MAKE", TRUE) EXCEPT
                                               !.append = append, !.pts = run.pts,
                                               !.sel = run.sel, !.names = w.names,
                                               !.seed = j_seed,
                                               !.outs = {[file |-> w.file,
                                                          values |-> x.pts] : x \in runs}]

\* SATG_GC_CRE with the default identifiers and the seed given, NoSeed for
\* none: line 866 hands the seed to _write_gc_scn, and line 526 to _gc_sample
GcCreSeeded(typ, altmode, seed, overwrite) ==
    /\ typ \in {"headon", "cross", "overtake"}
    /\ altmode \in {"level", "altcross"}
    /\ overwrite \in {"0", "1"}
    /\ UNCHANGED <<calls, gc_ranges, loadVars, jitterVars, autodel>>
    /\ LET append == (overwrite # "1") /\ scn.exists
           nmax == ScanMaxScIndex(scn)
           acid1 == IF append THEN ScAcid(nmax + 1) ELSE SC1
           acid2 == IF append THEN ScAcid(nmax + 2) ELSE SC2
           Values(st) == <<GcValues(typ, altmode, {}, {}, GcSampleFrom(st, gc_ranges))>>
       IN  /\ append => NumCre(scn) + 2 <= MaxCre
           /\ Len(gc_last_acids) + 2 <= MaxGcLast
           /\ \E f \in {WriteGcScn(scn, append, acid1, acid2)} :
                  \E st \in StreamsOf(seed) :
                      /\ scn' = f
                      /\ gc_last_acids' = gc_last_acids \o <<acid1, acid2>>
                      /\ last' = [Did("GC_CRE", TRUE) EXCEPT
                                      !.append = append, !.given = <<SC1, SC2>>,
                                      !.ids = <<acid1, acid2>>,
                                      !.enc = Values(st)[1], !.seed = seed,
                                      !.outs = {[file |-> f, values |-> Values(x)] :
                                                    x \in StreamsOf(seed)}]

\* SATG_RC_CIRCLE with the three types, no range arguments and the seed
\* given, NoSeed for none: line 961 makes the generator of the loop from the
\* seed, and line 1028 hands seed=None to _write_gc_scn for every encounter
RcCircleSeeded(n, altmode, seed, overwrite) ==
    /\ n \in 1..MaxCircle
    /\ altmode \in {"level", "altcross", "mix"}
    /\ overwrite \in {"0", "1"}
    /\ UNCHANGED <<calls, gc_ranges, loadVars, jitterVars, autodel>>
    /\ LET append == (overwrite # "1") /\ scn.exists
           start == IF overwrite = "1" THEN NoFile ELSE scn
           over == CircleOverride(gc_ranges, {}, {}, {})
       IN  /\ append => NumCre(scn) + 2 * n <= MaxCre
           /\ Len(gc_last_acids) + 2 * n <= MaxGcLast
           /\ \E r \in {CircleLoop(start, append, n)} :
                  \E outs \in {{[file |-> r.file,
                                 values |-> CircleValues(st, 0, n, altmode, over, ss)] :
                                    st \in StreamsOf(seed),
                                    ss \in [1..n -> StreamsOf(NoSeed)]}} :
                      \E out \in outs :
                          /\ scn' = r.file
                          /\ gc_last_acids' = gc_last_acids \o r.ids
                          /\ last' = [Did("RC_CIRCLE", TRUE) EXCEPT
                                          !.append = append, !.ids = r.ids,
                                          !.used = over, !.enc = out.values[1],
                                          !.seed = seed, !.outs = outs]

\* SATG_GC_CRE with the default identifiers and overwrite=0 on a file that
\* exists, up to the scan of line 859
GcScan(p) ==
    /\ ~Busy(p)
    /\ scn.exists
    /\ NumCre(scn) + 2 <= MaxCre
    /\ calls' = Stepped(p, [Idle EXCEPT !.pc = "gc_scanned", !.ids = DefaultIds(scn)],
                        scn, scn)
    /\ UNCHANGED <<gc_ranges, loadVars, jitterVars, autodel, gc_last_acids, scn, last>>

\* the rest of that call: _write_gc_scn opens the file in mode "a", writes
\* the eight lines and closes it
GcAppend(p) ==
    /\ calls.proc[p].pc = "gc_scanned"
    /\ NumCre(scn) + 2 <= MaxCre
    /\ \E ids \in {calls.proc[p].ids} :
           \E f \in {WriteGcScn(scn, TRUE, ids[1], ids[2])} :
               /\ scn' = f
               /\ calls' = Stepped(p, Idle, scn, f)
               /\ last' = [Did("GC_CRE", TRUE) EXCEPT
                               !.append = TRUE, !.given = <<SC1, SC2>>, !.ids = ids]
    /\ UNCHANGED <<gc_ranges, loadVars, jitterVars, autodel, gc_last_acids>>

\* SATG_RL_MAKE with overwrite=0 on a file that exists, up to the end of the
\* with block of _write_rl_scn: lines 409-468, the file opened in mode "a",
\* the identifiers scanned and the lines of the batch in the buffer of f
RlScan(p) ==
    /\ ~Busy(p)
    /\ loaded_ok
    /\ scn.exists
    /\ NumCre(scn) + Len(Written(flights, base_points)) <= MaxCre
    /\ \E run \in PointsForRun :
           \E names \in {NameMap(Keys(flights), ScanExistingAcids(scn), <<>>)} :
               /\ jitter_subset' = run.subset
               /\ calls' = Stepped(p, [Idle EXCEPT
                                           !.pc = "rl_scanned", !.names = names,
                                           !.lines = BatchLines(Written(flights, run.pts),
                                                                run.pts, names, autodel)],
                                   scn, scn)
    /\ UNCHANGED <<gc_ranges, loadVars, jitter_on, j_seed, jitter_pct, dt_max, dlat_max,
                   dlon_max, dfl_max, jitter_dist, nsig, autodel, gc_last_acids, scn,
                   last>>

\* the with block ends: the buffer goes to the end of the file
RlAppend(p) ==
    /\ calls.proc[p].pc = "rl_scanned"
    /\ NumCre(scn) + Len(Written(flights, base_points)) <= MaxCre
    /\ \E f \in {File(scn.lines \o calls.proc[p].lines)} :
           /\ scn' = f
           /\ calls' = Stepped(p, [calls.proc[p] EXCEPT !.pc = "rl_appended"], scn, f)
    /\ UNCHANGED <<gc_ranges, loadVars, jitterVars, autodel, gc_last_acids, last>>

\* lines 372-373 of _sort_scn_file: the lines of the file are read
RlSortRead(p) ==
    /\ calls.proc[p].pc = "rl_appended"
    /\ calls' = Stepped(p, [calls.proc[p] EXCEPT !.pc = "rl_read", !.buf = scn.lines],
                        scn, scn)
    /\ UNCHANGED <<gc_ranges, loadVars, jitterVars, autodel, gc_last_acids, scn, last>>

\* lines 377-403: the lines read are sorted and the file is written anew
RlSortWrite(p) ==
    /\ calls.proc[p].pc = "rl_read"
    /\ \E f \in {File(SortScnLines(calls.proc[p].buf))} :
           /\ scn' = f
           /\ calls' = Stepped(p, Idle, scn, f)
           /\ last' = [Did("RL_MAKE", TRUE) EXCEPT
                           !.append = TRUE, !.names = calls.proc[p].names]
    /\ UNCHANGED <<gc_ranges, loadVars, jitterVars, autodel, gc_last_acids>>

\* _gs_to_cas_kt called for two ground speeds at one flight level
Convert(g1, g2, fl) ==
    /\ last' = [Did("cas", TRUE) EXCEPT
                    !.given = <<g1, g2, fl>>,
                    !.cas = <<GsToCasKt(g1, fl), GsToCasKt(g2, fl)>>]
    /\ UNCHANGED <<calls, gc_ranges, loadVars, jitterVars, autodel, gc_last_acids, scn>>

\* SATG_GC_RANGE: a holds, for each key, {} or the text given for it
SATG_GC_RANGE(a) ==
    /\ UNCHANGED <<calls, loadVars, jitterVars, autodel, gc_last_acids, scn>>
    /\ gc_ranges' = [k \in RangeKeys |-> ParseRange(a[k], gc_ranges[k])]
    /\ last' = [Did("GC_RANGE", TRUE) EXCEPT
                    !.keys = {k \in RangeKeys : a[k] # {}},
                    !.texts = UNION {a[k] : k \in RangeKeys}]

\* SATG_GC_DEL: one "DEL <acid>" for each recorded identifier
SATG_GC_DEL ==
    /\ UNCHANGED <<calls, gc_ranges, loadVars, jitterVars, autodel, scn>>
    /\ IF gc_last_acids = <<>>
       THEN /\ UNCHANGED gc_last_acids
            /\ last' = Did("GC_DEL", FALSE)
       ELSE /\ gc_last_acids' = <<>>
            /\ last' = [Did("GC_DEL", TRUE) EXCEPT !.ids = gc_last_acids]

\* one call of _get_points_for_run, the step of a generation run that makes
\* its waypoints: it may fill STATE.jitter_subset and changes nothing else
GetPoints ==
    /\ UNCHANGED <<calls, gc_ranges, flights, loaded_ok, jitter_on, j_seed, jitter_pct,
                   dt_max, dlat_max, dlon_max, dfl_max, jitter_dist, nsig, autodel,
                   gc_last_acids, scn>>
    /\ \E run \in PointsForRun :
               /\ jitter_subset' = run.subset
               /\ base_points' = BaseAfterRun(base_points, run.pts)
               /\ last' = [Did("points", TRUE) EXCEPT !.pts = run.pts, !.sel = run.sel]

\* _sort_scn_file on the scenario file, a file of any text
SortFile ==
    /\ scn.exists
    /\ scn' = SortScnText(scn)
    /\ last' = Did("sort", TRUE)
    /\ UNCHANGED <<calls, gc_ranges, loadVars, jitterVars, autodel, gc_last_acids>>

(***************************************************************************)
(* The arguments the commands are called with.                             *)
(***************************************************************************)
NoArgs ==
    [mode |-> "on", dist |-> {}, seed |-> {}, dt |-> {}, dlat |-> {}, dlon |-> {},
     dfl |-> {}, nsig |-> {}, pct |-> {}]

\* SATG_RL_JITTER calls: on, off, a mode that is neither, and "on" with some
\* of the optional arguments
JitterArgs ==
    {NoArgs, [NoArgs EXCEPT !.mode = "off"], [NoArgs EXCEPT !.mode = "maybe"],
     [NoArgs EXCEPT !.mode = "off", !.seed = {1}],
     [NoArgs EXCEPT !.seed = {1}], [NoArgs EXCEPT !.seed = {2}],
     [NoArgs EXCEPT !.dt = {1}], [NoArgs EXCEPT !.dfl = {1}],
     [NoArgs EXCEPT !.dlat = {1}, !.dlon = {1}],
     [NoArgs EXCEPT !.dt = {0}, !.dlat = {0}, !.dlon = {0}, !.dfl = {0}]}
    \cup {[NoArgs EXCEPT !.dist = {v}] : v \in {"uniform", "normal", "gamma"}}
    \cup {[NoArgs EXCEPT !.nsig = {v}] : v \in {0, 1}}
    \cup {[NoArgs EXCEPT !.pct = {v}] : v \in {0, 50, 100, 150}}

GcCall(typ, altmode, ids, ow) ==
    [typ |-> typ, altmode |-> altmode, acid1 |-> ids[1], acid2 |-> ids[2], ow |-> ow]

\* SATG_GC_CRE calls: default and own identifiers, append and overwrite, each
\* type and altitude mode, and one call for each argument that is rejected
GcArgs ==
    {GcCall("cross", "level", ids, ow) :
         ids \in {<<SC1, SC2>>, <<AB3, SC07>>}, ow \in {"0", "1"}}
    \cup {GcCall("headon", "altcross", <<SC1, SC2>>, "0"),
          GcCall("overtake", "level", <<SC1, SC2>>, "0"),
          GcCall("loop", "level", <<SC1, SC2>>, "0"),
          GcCall("cross", "climb", <<SC1, SC2>>, "0"),
          GcCall("cross", "level", <<SC1, SC2>>, "2")}

CircleCall(n, radius_ok, types_ok, altmode, ow) ==
    [n |-> n, radius_ok |-> radius_ok, types_ok |-> types_ok, altmode |-> altmode,
     ow |-> ow]

\* SATG_RC_CIRCLE calls
CircleArgs ==
    {CircleCall(n, TRUE, TRUE, "level", ow) : n \in 0..MaxCircle, ow \in {"0", "1"}}
    \cup {CircleCall(1, TRUE, TRUE, "mix", "0"),
          CircleCall(1, TRUE, TRUE, "altcross", "0"),
          CircleCall(1, FALSE, TRUE, "level", "0"),
          CircleCall(1, TRUE, FALSE, "level", "0"),
          CircleCall(1, TRUE, TRUE, "climb", "0"),
          CircleCall(1, TRUE, TRUE, "level", "2")}

\* the calls of SATG_GC_CRE whose values are followed: each type and altitude
\* mode, fl_cpa left out, below both sampled levels or between them, angle
\* left out or given
EncounterCalls ==
    [typ : {"headon", "cross", "overtake"}, altmode : {"level", "altcross"},
     fl_cpa : {{}, {290}, {330}}, angle_in : {{}, {Deg(45, 0)}}]

GcSample(cas, fls, brg1) ==
    [cas1 |-> cas[1], cas2 |-> cas[2], fl1 |-> fls[1], fl2 |-> fls[2],
     brg1 |-> brg1, angle |-> Deg(90, 0)]

\* values _gc_sample can return with the ranges of _SATGState.__init__: speeds
\* that are equal, inverted, apart by less than 0.1 kt and well apart; levels
\* in either order, equal, and one apart; three first courses
GcSamples ==
    {GcSample(cas, <<300, 350>>, Deg(45, 5)) :
         cas \in {<<Kt(250, 0), Kt(250, 0)>>, <<Kt(250, 4), Kt(250, 1)>>,
                  <<Kt(250, 1), Kt(250, 4)>>, <<Kt(250, 0), Kt(270, 0)>>,
                  <<Kt(270, 0), Kt(250, 0)>>}}
    \cup {GcSample(<<Kt(250, 0), Kt(270, 0)>>, fls, Deg(270, 4)) :
              fls \in {<<350, 300>>, <<300, 300>>, <<300, 301>>, <<301, 300>>,
                       <<330, 330>>, <<350, 330>>, <<330, 300>>}}
    \cup {GcSample(<<Kt(250, 0), Kt(270, 0)>>, <<300, 350>>, Deg(0, 0))}

(***************************************************************************)
(* Spec: the commands that load data and write the scenario file, with     *)
(* jitter as constructed (off).                                            *)
(***************************************************************************)
Next ==
    \/ \E cs \in CsvSets : SATG_RL_LOAD(cs)
    \/ \E mode \in {"on", "off", "auto"} : SATG_RL_AUTODEL(mode)
    \/ \E ow \in {0, 1} : SATG_RL_MAKE(ow)
    \/ \E ow \in {0, 1} : SATG_RL_RUN(ow)
    \/ \E c \in GcArgs : SATG_GC_CRE(c.typ, c.altmode, c.acid1, c.acid2, c.ow)
    \/ \E c \in CircleArgs : SATG_RC_CIRCLE(c.n, c.radius_ok, c.types_ok, c.altmode, c.ow)
    \/ SATG_GC_DEL

Spec == Init /\ [][Next]_vars

(***************************************************************************)
(* SpecJitter: the commands that load data and configure jitter, and the   *)
(* waypoints each generation run is given.                                 *)
(***************************************************************************)
NextJitter ==
    \/ \E cs \in CsvSets : SATG_RL_LOAD(cs)
    \/ \E a \in JitterArgs : SATG_RL_JITTER(a)
    \/ \E mode \in {"on", "off", "auto"} : SATG_RL_AUTODEL(mode)
    \/ GetPoints

SpecJitter == Init /\ [][NextJitter]_vars

(***************************************************************************)
(* SpecEncounter: encounters written one at a time into a fresh file, with *)
(* the values each is written with, and the deletion of what was created.  *)
(***************************************************************************)
NextEncounter ==
    \/ \E c \in EncounterCalls, s \in GcSamples :
           GcEncounter(c.typ, c.altmode, c.fl_cpa, c.angle_in, s)
    \/ SATG_GC_DEL

SpecEncounter == Init /\ [][NextEncounter]_vars

(***************************************************************************)
(* SpecSort: the normalisation of a scenario file that was not written by  *)
(* this session.                                                           *)
(***************************************************************************)
\* the texts of its lines: the HOLD directive at time zero and half an hour
\* later, creations at 1 s and 2 s, the delete trigger of HOLD1 at 2 s, and
\* a line without a stamp
SortTexts ==
    {HoldLine,
     Line(Stamp(1800), "HOLD", NoText, NoText, NoLevel),
     Line(Stamp(1), "CRE", AB3, NoText, NoLevel),
     Line(Stamp(2), "CRE", XY, NoText, NoLevel),
     Line(Stamp(2), "AT_DEL", HOLD1, <<"H", "O", "L", "D", "1", "_", "D", "E", "S", "T">>,
          NoLevel),
     Line(Stamp(-1), "CRE", ZZ, NoText, NoLevel)}

RECURSIVE SeqsUpTo(_, _)
SeqsUpTo(S, n) ==
    IF n = 0 THEN {<<>>}
    ELSE LET shorter == SeqsUpTo(S, n - 1)
         IN  shorter \cup {Append(q, x) : q \in shorter, x \in S}

\* the files: up to MaxLines lines, the last with or without its "\n"
SortInputs ==
    {TextFile([i \in 1..Len(q) |-> <<q[i]>>], nl) :
         q \in SeqsUpTo(SortTexts, MaxLines), nl \in BOOLEAN}

InitSort ==
    /\ flights = <<>>
    /\ base_points = <<>>
    /\ loaded_ok = FALSE
    /\ jitter_on = FALSE
    /\ j_seed = NoSeed
    /\ jitter_pct = 100
    /\ jitter_subset = NoSubset
    /\ dt_max = 0 /\ dlat_max = 0 /\ dlon_max = 0 /\ dfl_max = 0
    /\ jitter_dist = "normal"
    /\ nsig = 0
    /\ autodel = TRUE
    /\ gc_last_acids = <<>>
    /\ gc_ranges = DefaultRanges
    /\ calls = NoCalls
    /\ scn \in SortInputs
    /\ last = Did("init", TRUE)

NextSort == SortFile

SpecSort == InitSort /\ [][NextSort]_vars

(***************************************************************************)
(* SpecReplay: loading, the auto-delete setting and replay generation, on  *)
(* data whose aircraft have one, two and three samples.                    *)
(***************************************************************************)
\* "day3": AB3 cruises and AB4 lands, each with three samples; XY has a single
\* sample at level 0 and ZZ a single sample in the air
Day3 ==
    [name |-> "day3", found_flights |-> TRUE, found_points |-> TRUE,
     flights_rows |-> <<Meta(AB3, "A320"), Meta(AB4, "B738"), Meta(XY, "C172"),
                        Meta(ZZ, "C172")>>,
     points_rows |-> <<Row(AB3, 1, 10, 2, 0, 0), Row(AB3, 2, 20, 2, 1, 1),
                       Row(AB3, 3, 30, 1, 2, 2), Row(AB4, 1, 5, 2, 0, 0),
                       Row(AB4, 2, 9, 1, 1, 1), Row(AB4, 3, 12, 0, 2, 2),
                       Row(XY, 1, 7, 0, 0, 0), Row(ZZ, 1, 8, 3, 1, 1)>>]

ReplaySets == {cs \in CsvSets : cs.name \in {"day1", "day2"}} \cup {Day3}

NextReplay ==
    \/ \E cs \in ReplaySets : SATG_RL_LOAD(cs)
    \/ \E mode \in {"on", "off", "auto"} : SATG_RL_AUTODEL(mode)
    \/ \E ow \in {0, 1} : SATG_RL_MAKE(ow)

SpecReplay == Init /\ [][NextReplay]_vars

(***************************************************************************)
(* SpecRanges: the sampling ranges, set by SATG_GC_RANGE and overridden    *)
(* while SATG_RC_CIRCLE runs.                                              *)
(***************************************************************************)
\* range texts: one number, two numbers in either order, and three texts
\* that are no range
RangeTexts ==
    {<<"2", "3", "0">>, <<"2", "3", "0", ":", "2", "6", "0">>,
     <<"2", "6", "0", ":", "2", "3", "0">>, <<"a", "b", "c">>,
     <<"2", "3", "0", ":">>, <<"2", "3", "0", ":", "x">>}

NoRangeArgs == [k \in RangeKeys |-> {}]

\* SATG_GC_RANGE calls: no argument, one of cas1, fl2 and angle, or two
RangeArgs ==
    {NoRangeArgs}
    \cup {[NoRangeArgs EXCEPT ![k] = {s}] : k \in {"cas1", "fl2", "angle"}, s \in RangeTexts}
    \cup {[NoRangeArgs EXCEPT !.cas1 = {<<"2", "3", "0">>}, !.brg1 = {<<"a", "b", "c">>}]}

\* SATG_RC_CIRCLE calls on a fresh file: one or two encounters, a write that
\* may raise, and at most one of cas, fl and angle given
RcCircleArgs ==
    {[n |-> n, altmode |-> "level", cas |-> {}, fl |-> {}, angle |-> {}, done |-> d] :
         n \in 1..MaxCircle, d \in 0..MaxCircle}
    \cup {[n |-> 1, altmode |-> "level", cas |-> {s}, fl |-> {}, angle |-> {}, done |-> d] :
              s \in RangeTexts, d \in 0..1}
    \cup {[n |-> 1, altmode |-> "level", cas |-> {}, fl |-> {s}, angle |-> {}, done |-> 1] :
              s \in RangeTexts}
    \cup {[n |-> 1, altmode |-> "level", cas |-> {}, fl |-> {}, angle |-> {s}, done |-> 1] :
              s \in RangeTexts}
    \cup {[n |-> 1, altmode |-> "climb", cas |-> {<<"a", "b", "c">>}, fl |-> {},
           angle |-> {}, done |-> 1]}

NextRanges ==
    \/ \E a \in RangeArgs : SATG_GC_RANGE(a)
    \/ \E c \in RcCircleArgs :
           RcCircle(c.n, TRUE, TRUE, c.altmode, "1", c.cas, c.fl, c.angle, c.done)
    \/ SATG_GC_DEL

SpecRanges == Init /\ [][NextRanges]_vars

(***************************************************************************)
(* SpecIo: generation on a file system whose calls may raise.              *)
(***************************************************************************)
NextIo ==
    \/ \E cs \in {c \in CsvSets : c.name = "day1"} : SATG_RL_LOAD(cs)
    \/ \E ow \in {0, 1}, io \in {"ok", "open", "sort_read", "sort_open", "sort_write"} :
           RlMakeIo(ow, io, 3)
    \/ \E ow \in {"0", "1"}, io \in {"ok", "remove", "open"} : GcCreIo(ow, io)
    \/ SATG_GC_DEL

SpecIo == Init /\ [][NextIo]_vars

(***************************************************************************)
(* SpecSeed: the three generation calls with and without a seed, each      *)
(* step recording every file the same call could have left.                *)
(***************************************************************************)
\* SATG_RL_JITTER calls that set the seed, the share, and the magnitudes
SeedJitterArgs ==
    {[NoArgs EXCEPT !.seed = {1}, !.dt = {1}, !.pct = {50}],
     [NoArgs EXCEPT !.seed = {2}, !.dfl = {1}],
     [NoArgs EXCEPT !.dt = {1}, !.pct = {50}]}

NextSeed ==
    \/ \E cs \in {c \in CsvSets : c.name = "day1"} : SATG_RL_LOAD(cs)
    \/ \E a \in SeedJitterArgs : SATG_RL_JITTER(a)
    \/ RlMakeSeeded(1)
    \/ \E typ \in {"cross", "overtake"}, seed \in {NoSeed, 1} :
           GcCreSeeded(typ, "altcross", seed, "1")
    \/ \E n \in 1..MaxCircle, seed \in {NoSeed, 1}, ow \in {"0", "1"} :
           RcCircleSeeded(n, "mix", seed, ow)

SpecSeed == Init /\ [][NextSeed]_vars

(***************************************************************************)
(* SpecRace: two sessions that append to the file one file operation at a  *)
(* time.  The track set is loaded and the file first made while both are   *)
(* idle.                                                                   *)
(***************************************************************************)
NextRace ==
    \/ /\ \A p \in Procs : ~Busy(p)
       /\ \E cs \in {c \in CsvSets : c.name = "day1"} : SATG_RL_LOAD(cs)
    \/ /\ \A p \in Procs : ~Busy(p)
       /\ ~scn.exists
       /\ SATG_GC_CRE("headon", "level", SC1, SC2, "0")
    \/ \E p \in Procs : GcScan(p)
    \/ \E p \in Procs : GcAppend(p)
    \/ \E p \in Procs : RlScan(p)
    \/ \E p \in Procs : RlAppend(p)
    \/ \E p \in Procs : RlSortRead(p)
    \/ \E p \in Procs : RlSortWrite(p)

SpecRace == Init /\ [][NextRace]_vars

(***************************************************************************)
(* SpecCas: the speed conversion on pairs of ground speeds.                *)
(***************************************************************************)
\* lg of the ground speeds: 50 kt to 100 kt, on both sides of Mach 0.1
\* (66.1 kt at sea level, 57.4 kt from FL361), and from 1e20 kt up
CasSpeeds ==
    {1700, 1750, 1770, 1800, 1830, 1900, 2000,
     20000, 40000, 47000, 48000, 100000, 160000}

\* sea level, a level of the troposphere, two of the isothermal layer
CasLevels == {0, 100, 400, 7400}

NextCas ==
    \E g1 \in CasSpeeds, g2 \in CasSpeeds, fl \in CasLevels :
        g1 < g2 /\ Convert(g1, g2, fl)

SpecCas == Init /\ [][NextCas]_vars

(***************************************************************************)
(* Properties of the scenario file.                                        *)
(***************************************************************************)
\* the places of the lines of file f whose command is cmd
LinesWith(f, cmd) == {i \in 1..Len(f.lines) : f.lines[i].cmd = cmd}

\* the identifiers of the CRE lines of file f, in file order
CreAcids(f) ==
    LET cre == SelectSeq(f.lines, LAMBDA ln : ln.cmd = "CRE")
    IN  [i \in 1..Len(cre) |-> cre[i].acid]

\* C1: whenever the scenario file exists, it holds exactly one HOLD line and
\* exactly one ASAS ON line, and they are its first two lines, whatever mix
\* of replay and encounter generations, overwriting or appending, made it.
C1_HeaderOnce ==
    scn.exists =>
        /\ Len(scn.lines) >= 2
        /\ scn.lines[1] = HoldLine
        /\ scn.lines[2] = AsasLine
        /\ LinesWith(scn, "HOLD") = {1}
        /\ LinesWith(scn, "ASAS ON") = {2}

\* a file that a replay append has just re-sorted, holding encounter aircraft
\* and replayed aircraft, one of them named HOLD1
C1_Witness ==
    /\ scn.exists
    /\ last.op \in {"RL_MAKE", "RL_RUN"} /\ last.ok
    /\ \E i \in 1..Len(CreAcids(scn)) : IsScAcid(CreAcids(scn)[i])
    /\ \E i \in 1..Len(CreAcids(scn)) : CreAcids(scn)[i] = HOLD1

\* C2: in the scenario file the stamped lines other than the HOLD and
\* ASAS ON lines are in non-decreasing order of their stamps, after every
\* write or append of a replay or an encounter generation.
C2_TimeOrdered ==
    scn.exists =>
        \A i, j \in 1..Len(scn.lines) :
            (/\ i < j
             /\ scn.lines[i].cmd \notin {"HOLD", "ASAS ON"}
             /\ scn.lines[j].cmd \notin {"HOLD", "ASAS ON"}
             /\ ParseTs(scn.lines[i]) # NoTime
             /\ ParseTs(scn.lines[j]) # NoTime)
            => ParseTs(scn.lines[i]) <= ParseTs(scn.lines[j])

\* C3: no two CRE lines of the scenario file carry the same identifier,
\* whatever replay batches and encounters, with default or caller-supplied
\* identifiers, were appended.
C3_UniqueCre ==
    scn.exists =>
        \A i, j \in 1..Len(CreAcids(scn)) :
            i # j => CreAcids(scn)[i] # CreAcids(scn)[j]

\* `out` is `acid` with its numeric suffix raised, at the same zero-padded
\* width, to the first value that gives an identifier not in `used`
RenamedBySuffix(acid, out, used) ==
    LET k == TrailingDigits(acid)
        root == SubSeq(acid, 1, Len(acid) - k)
        n == TextInt(SubSeq(acid, Len(acid) - k + 1, Len(acid)))
        cand(v) == root \o ZFill(IntText(v), k)
    IN  \E v \in (n + 1)..(n + Cardinality(used) + 1) :
            /\ out = cand(v)
            /\ out \notin used
            /\ \A u \in (n + 1)..(v - 1) : cand(u) \in used

\* the step is a replay generation that appends to the existing file
ReplayAppend == last'.op \in {"RL_MAKE", "RL_RUN"} /\ last'.ok /\ last'.append

\* C4: on a replay append, every aircraft whose identifier ends in digits
\* and is already on a CRE line of the file, or was given to an earlier
\* aircraft of the batch, is renamed by raising its numeric suffix, at the
\* same zero-padded width, to the first value used by neither.
C4_SuffixRename ==
    [][ReplayAppend =>
          \A i \in 1..Len(last'.names) :
              LET acid == last'.names[i].acid
                  used == Range(CreAcids(scn))
                              \cup {last'.names[j].out : j \in 1..(i - 1)}
              IN  (TrailingDigits(acid) > 0 /\ acid \in used)
                      => RenamedBySuffix(acid, last'.names[i].out, used)]_vars

\* the highest number of an SC<number> identifier among acids, 0 if none
HighestSc(acids) ==
    LET ns == {TextInt(SubSeq(a, 3, Len(a))) : a \in {b \in acids : IsScAcid(b)}}
    IN  IF ns = {} THEN 0 ELSE SetMax(ns)

\* ids are the identifiers of encounters added one after the other to a file
\* whose CRE lines carry `base`: each encounter gets SC(n+1) and SC(n+2), n
\* the highest SC number on a CRE line at that moment, and neither is there
EncounterIds(base, ids) ==
    /\ Len(ids) % 2 = 0
    /\ \A k \in 1..(Len(ids) \div 2) :
           LET present == Range(base) \cup {ids[j] : j \in 1..(2 * k - 2)}
               n == HighestSc(present)
           IN  /\ ids[2 * k - 1] = ScAcid(n + 1)
               /\ ids[2 * k] = ScAcid(n + 2)
               /\ {ids[2 * k - 1], ids[2 * k]} \cap present = {}
               /\ \A a \in present :
                      IsScAcid(a) => TextInt(SubSeq(a, 3, Len(a))) < n + 1

\* the step is an encounter generation with the default identifiers
DefaultEncounter ==
    /\ last'.ok
    /\ \/ last'.op = "RC_CIRCLE"
       \/ last'.op = "GC_CRE" /\ last'.given = <<SC1, SC2>>

\* C5: every encounter written with the default identifiers, by SATG_GC_CRE
\* or by an iteration of SATG_RC_CIRCLE, gets SC(n+1) and SC(n+2) where n is
\* the highest SC number on the CRE lines of the file at that moment (0 in a
\* new file): the numbers rise from one append to the next, no identifier
\* given is already in the file, and the CRE lines added carry them.
C5_ScSequence ==
    [][DefaultEncounter =>
          LET base == IF last'.append THEN CreAcids(scn) ELSE <<>>
          IN  /\ EncounterIds(base, last'.ids)
              /\ CreAcids(scn') = base \o last'.ids]_vars

\* SATG_RC_CIRCLE has appended two encounters to a file that held SC1 and
\* SC2 next to replayed aircraft
C5_Witness ==
    /\ last.op = "RC_CIRCLE" /\ last.ok
    /\ last.ids = <<ScAcid(3), ScAcid(4), ScAcid(5), ScAcid(6)>>
    /\ CreAcids(scn) = <<SC1, SC2>> \o last.ids

\* the number of lines of `lines` that belong to the aircraft written as
\* `name`: those that carry the name, and the DEFWPT lines of its two fixes
LinesFor(lines, name) ==
    Cardinality({i \in 1..Len(lines) :
        \/ lines[i].acid = name
        \/ /\ lines[i].cmd = "DEFWPT"
           /\ lines[i].wpt \in {SanitizeName(name \o <<"_", "D", "E", "S", "T">>),
                                 SanitizeName(name \o <<"_", "A", "P", "P">>)}})

\* C10: a replay generation adds lines for an identifier if and only if the
\* identifier has a metadata row and at least one waypoint in the loaded
\* data; for every other identifier of the data it adds no line.
C10_WrittenIff ==
    [][(last'.op \in {"RL_MAKE", "RL_RUN"} /\ last'.ok) =>
          LET before == IF last'.append THEN scn.lines ELSE HeaderLines
              names == last'.names
              out(a) == IF HasKey(names, a) THEN Lookup(names, a).out ELSE a
              has_both(a) ==
                  /\ HasKey(flights, a)
                  /\ HasKey(base_points, a)
                  /\ Lookup(base_points, a).pts # <<>>
          IN  /\ \A a \in Range(Keys(flights)) \cup Range(Keys(base_points)) :
                     (LinesFor(scn'.lines, out(a)) > LinesFor(before, out(a)))
                         <=> has_both(a)
              /\ Len(CreAcids(scn'))
                     = Len(SelectSeq(before, LAMBDA ln : ln.cmd = "CRE"))
                           + Cardinality({a \in Range(Keys(flights)) : has_both(a)})]_vars

\* a replay has appended the flights of data in which XY has metadata and no
\* waypoint and ZZ has waypoints and no metadata
C10_Witness ==
    /\ last.op \in {"RL_MAKE", "RL_RUN"} /\ last.ok
    /\ HasKey(flights, XY) /\ ~HasKey(base_points, XY)
    /\ HasKey(base_points, ZZ) /\ ~HasKey(flights, ZZ)
    /\ Len(CreAcids(scn)) >= 4
    /\ \E i \in 1..Len(CreAcids(scn)) : CreAcids(scn)[i] = AB4

(***************************************************************************)
(* Properties of the waypoints of a generation run.                        *)
(***************************************************************************)
\* the last step was a call of _get_points_for_run with jitter enabled
JitteredRun == last.op = "points" /\ jitter_on

\* the times of the waypoint list plist never go back
TimesNonDecreasing(plist) ==
    \A i \in 1..(Len(plist) - 1) : plist[i].t <= plist[i + 1].t

\* the waypoint list plist is in the order of its sequence indices
OrderedBySeq(plist) ==
    \A i \in 1..(Len(plist) - 1) : plist[i].seq <= plist[i + 1].seq

\* C6: a run with jitter enabled perturbs no aircraft at coverage 0, all N
\* at coverage 100 and round(c/100 x N) at a coverage c between, N being the
\* number of aircraft of the loaded track set.
C6_CoverageCount ==
    JitteredRun =>
        LET N == Len(base_points)
        IN  Cardinality(last.sel) =
                IF jitter_pct <= 0 THEN 0
                ELSE IF jitter_pct >= 100 THEN N
                ELSE RoundDiv(jitter_pct * N, 100)

\* C7: once the set of aircraft to perturb is computed, a step that changes
\* neither the coverage, nor the seed, nor the loaded track set leaves it as
\* it is.
C7_SubsetCached ==
    [][(/\ ~jitter_subset.isNone
        /\ jitter_pct' = jitter_pct
        /\ j_seed' = j_seed
        /\ base_points' = base_points)
       => jitter_subset' = jitter_subset]_vars

\* C8: with jitter enabled and the four magnitudes 0, the waypoints of a run
\* are those of a run with jitter disabled, the loaded waypoints.
C8_ZeroMagnitudes ==
    (/\ JitteredRun
     /\ dt_max = 0 /\ dlat_max = 0 /\ dlon_max = 0 /\ dfl_max = 0)
    => last.pts = base_points

\* C9 as stated: in a run with jitter enabled the waypoints of every aircraft
\* are in the order of their sequence indices and their times never go back.
C9_AllMonotone ==
    JitteredRun =>
        \A k \in 1..Len(last.pts) :
            OrderedBySeq(last.pts[k].pts) /\ TimesNonDecreasing(last.pts[k].pts)

\* C9: in a run with jitter enabled the waypoints of every aircraft are in
\* the order of their sequence indices, and the times of every aircraft
\* selected for perturbation never go back.
C9_SelectedMonotone ==
    JitteredRun =>
        \A k \in 1..Len(last.pts) :
            /\ OrderedBySeq(last.pts[k].pts)
            /\ last.pts[k].acid \in last.sel => TimesNonDecreasing(last.pts[k].pts)

\* a run has perturbed the times of A.3, whose loaded times go back
C9_Witness ==
    /\ JitteredRun
    /\ dt_max > 0
    /\ A_3 \in last.sel
    /\ ~TimesNonDecreasing(Lookup(base_points, A_3).pts)
    /\ Lookup(last.pts, A_3).pts # Lookup(base_points, A_3).pts

(***************************************************************************)
(* Properties of loading.                                                  *)
(***************************************************************************)
\* C11: a load that finds only one of the two kinds of input, or neither,
\* fails and leaves the loaded metadata, the loaded tracks and the loaded
\* flag as they were.
C11_PartialLoadRejected ==
    [][\A cs \in CsvSets :
          (~(cs.found_flights /\ cs.found_points) /\ SATG_RL_LOAD(cs))
              => (~last'.ok /\ UNCHANGED <<flights, base_points, loaded_ok>>)]_vars

\* a load has failed after data was loaded, and the data is still there
C11_Witness ==
    /\ last.op = "RL_LOAD" /\ ~last.ok
    /\ loaded_ok /\ flights # <<>> /\ base_points # <<>>

(***************************************************************************)
(* Properties of the values an encounter is written with.                  *)
(***************************************************************************)
\* C12: in an overtaking encounter the speed written for aircraft 2 is
\* strictly greater than the speed written for aircraft 1, whatever pair of
\* speeds was sampled.
C12_WrittenFaster ==
    last.enc.typ = "overtake" => last.enc.cre_cas2 > last.enc.cre_cas1

\* the levels a and b lie strictly on opposite sides of level l
Straddle(a, b, l) == (a > l /\ b < l) \/ (b > l /\ a < l)

\* C13: in altitude-crossing mode the two start levels written straddle the
\* target level, given or midpoint: one strictly above, one strictly below.
C13_StartLevelsStraddle ==
    last.enc.altmode = "altcross"
        => Straddle(last.enc.fl1_start, last.enc.fl2_start, last.enc.flc)

\* an altitude-crossing encounter whose sampled levels are both above the
\* given target
C13_Witness ==
    /\ last.enc.altmode = "altcross" /\ last.enc.fl_cpa = {290}
    /\ last.enc.s.fl1 = 300 /\ last.enc.s.fl2 = 350
    /\ last.enc.fl1_start > 290 /\ last.enc.fl2_start < 290

\* C14: in altitude-crossing mode, when after the nudge both levels are on
\* the same side of the target, the aircraft with the lower level ends
\* strictly below the target and the one with the higher level strictly above.
C14_LowerBelowHigherAbove ==
    \A n \in {IF last.enc.altmode = "altcross"
              THEN Nudged(last.enc.flc, last.enc.s.fl1, last.enc.s.fl2)
              ELSE <<0, 0>>} :
        (/\ last.enc.altmode = "altcross"
         /\ ~Straddle(n[1], n[2], last.enc.flc)
         /\ n[1] # n[2])
            => IF n[1] < n[2]
               THEN last.enc.fl1_start < last.enc.flc /\ last.enc.fl2_start > last.enc.flc
               ELSE last.enc.fl2_start < last.enc.flc /\ last.enc.fl1_start > last.enc.flc

\* C15: the course of aircraft 2 is the reciprocal of b1 head-on, b1 plus the
\* angle for a crossing, b1 for an overtake; the angle is the caller's when
\* given and the sampled one otherwise, and only a crossing uses it.
C15_SecondBearing ==
    last.enc.typ # "none" =>
        \A b1 \in {last.enc.s.brg1} :
            /\ last.enc.typ = "headon" => last.enc.brg2 = (b1 + 1800) % 3600
            /\ last.enc.typ = "overtake" => last.enc.brg2 = b1
            /\ (last.enc.typ = "cross" /\ last.enc.angle_in = {})
                   => last.enc.brg2 = (b1 + last.enc.s.angle) % 3600
            /\ (last.enc.typ = "cross" /\ last.enc.angle_in # {})
                   => \A a \in last.enc.angle_in : last.enc.brg2 = (b1 + a) % 3600

\* a crossing written with the caller's angle, which differs from the sampled
\* one, from a first course that is not a whole number of degrees
C15_Witness ==
    /\ last.enc.typ = "cross" /\ last.enc.angle_in = {450}
    /\ last.enc.s.angle = 900 /\ last.enc.s.brg1 = 2704
    /\ last.enc.brg2 = 3154 /\ last.enc.hdg2 = 315

(***************************************************************************)
(* Properties of the normalisation.                                        *)
(***************************************************************************)
\* the number of times line r occurs in rows
Count(rows, r) == Cardinality({i \in 1..Len(rows) : rows[i] = r})

\* C16: normalisation leaves the header lines in their order, then the
\* stamped lines by (stamp, original position), then the other lines in
\* their order; the result has exactly the lines of the input, each once; and
\* normalising the result again changes nothing.
C16_Normalized ==
    [][last'.op = "sort" =>
        \E header \in {SelectSeq(scn.rows, RowIsHeader)},
           stamped \in {SelectSeq(scn.rows, LAMBDA r : ~RowIsHeader(r) /\ RowTs(r) # NoTime)},
           rest \in {SelectSeq(scn.rows, LAMBDA r : ~RowIsHeader(r) /\ RowTs(r) = NoTime)} :
            /\ Len(scn'.rows) = Len(scn.rows)
            /\ \A r \in Range(scn.rows) \cup Range(scn'.rows) :
                   Count(scn'.rows, r) = Count(scn.rows, r)
            /\ SubSeq(scn'.rows, 1, Len(header)) = header
            /\ SubSeq(scn'.rows, Len(scn.rows) - Len(rest) + 1, Len(scn.rows)) = rest
            /\ \E body \in {SubSeq(scn'.rows, Len(header) + 1, Len(header) + Len(stamped))} :
                   /\ \A i, j \in 1..Len(body) : i < j => RowTs(body[i]) <= RowTs(body[j])
                   /\ \A x \in {RowTs(r) : r \in Range(stamped)} :
                          SelectSeq(body, LAMBDA r : RowTs(r) = x)
                              = SelectSeq(stamped, LAMBDA r : RowTs(r) = x)
            /\ SortScnText(scn') = scn']_vars

\* C17: a line is kept in the header block exactly when it is a HOLD or
\* ASAS ON directive stamped at time zero; every other stamped line, whatever
\* follows its stamp, is placed in the body in the order of the stamps.
C17_HeaderIffDirectiveAtZero ==
    [][last'.op = "sort" =>
        \A i, j \in 1..Len(scn'.rows) :
            \A a \in {scn'.rows[i][1]}, b \in {scn'.rows[j][1]} :
                (/\ i < j
                 /\ ~(a.cmd \in {"HOLD", "ASAS ON"} /\ ParseTs(a) = 0)
                 /\ ParseTs(a) # NoTime /\ ParseTs(b) # NoTime)
                    => /\ ~(b.cmd \in {"HOLD", "ASAS ON"} /\ ParseTs(b) = 0)
                       /\ ParseTs(a) <= ParseTs(b)]_vars

(***************************************************************************)
(* Properties of the lines a replay generation writes for an aircraft.     *)
(***************************************************************************)
\* the routing instructions of identifier o in file f, in file order
AddWpts(f, o) == SelectSeq(f.lines, LAMBDA ln : ln.cmd = "ADDWPT" /\ ln.acid = o)

\* the names of the fixes of identifier o
DestName(o) == SanitizeName(o \o <<"_", "D", "E", "S", "T">>)

AppName(o) == SanitizeName(o \o <<"_", "A", "P", "P">>)

\* the step added a line with command cmd, identifier o and fix name w
Emitted(before, after, cmd, o, w) ==
    Len(SelectSeq(after, LAMBDA ln : ln.cmd = cmd /\ ln.acid = o /\ ln.wpt = w))
        > Len(SelectSeq(before, LAMBDA ln : ln.cmd = cmd /\ ln.acid = o /\ ln.wpt = w))

\* the flights a generation with waypoints pts writes
Rendered(pts) ==
    {a \in Range(Keys(flights)) : HasKey(pts, a) /\ Lookup(pts, a).pts # <<>>}

\* C18, as stated: for every aircraft written by a replay generation the
\* final sample is defined as a named fix and the last routing instruction
\* names that fix; if the final level is 0 the second-to-last sample is a
\* named fix too and its routing instruction names it.
C18_FixesAlways ==
    [][(last'.op = "RL_MAKE" /\ last'.ok) =>
        \A a \in Rendered(last'.pts) :
            \E o \in {Lookup(last'.names, a).out}, segs \in {Lookup(last'.pts, a).pts},
               before \in {IF last'.append THEN scn.lines ELSE HeaderLines} :
                \E n \in {Len(segs)}, adds \in {AddWpts(scn', o)} :
                    /\ Emitted(before, scn'.lines, "DEFWPT", NoText, DestName(o))
                    /\ n >= 2 => adds[Len(adds)].wpt = DestName(o)
                    /\ segs[n].fl = 0 =>
                           /\ n >= 2 => Emitted(before, scn'.lines, "DEFWPT", NoText, AppName(o))
                           /\ n >= 3 => adds[Len(adds) - 1].wpt = AppName(o)]_vars

\* C18, amended: the final sample is a named fix, and the last routing
\* instruction names it, exactly when the final level is 0 or auto-delete is
\* enabled; otherwise no fix is defined and the instruction gives raw
\* coordinates.  The second-to-last sample is a named fix exactly when the
\* final level is 0 and there are two samples or more, and the instruction
\* for it names the fix when there are three or more.
C18_FixesWhenTriggered ==
    [][(last'.op = "RL_MAKE" /\ last'.ok) =>
        \A a \in Rendered(last'.pts) :
            \E o \in {Lookup(last'.names, a).out}, segs \in {Lookup(last'.pts, a).pts},
               before \in {IF last'.append THEN scn.lines ELSE HeaderLines} :
                \E n \in {Len(segs)}, adds \in {AddWpts(scn', o)} :
                    /\ Emitted(before, scn'.lines, "DEFWPT", NoText, DestName(o))
                           <=> (segs[n].fl = 0 \/ autodel)
                    /\ n >= 2 =>
                           adds[Len(adds)].wpt
                               = IF segs[n].fl = 0 \/ autodel THEN DestName(o) ELSE NoText
                    /\ Emitted(before, scn'.lines, "DEFWPT", NoText, AppName(o))
                           <=> (segs[n].fl = 0 /\ n >= 2)
                    /\ n >= 3 =>
                           adds[Len(adds) - 1].wpt
                               = IF segs[n].fl = 0 THEN AppName(o) ELSE NoText]_vars

\* with auto-delete disabled a generation has written AB3, which ends in the
\* air and is routed by coordinates, and AB4, which lands after three samples
\* and is routed to its two fixes
C18_Witness ==
    /\ last.op = "RL_MAKE" /\ last.ok /\ ~autodel
    /\ HasKey(last.pts, AB4) /\ Len(Lookup(last.pts, AB4).pts) = 3
    /\ \E i \in 1..Len(scn.lines) :
           scn.lines[i].cmd = "ADDWPT" /\ scn.lines[i].acid = AB3
               /\ scn.lines[i].wpt = NoText
    /\ \E i \in 1..Len(scn.lines) :
           scn.lines[i].cmd = "ADDWPT" /\ scn.lines[i].acid = AB4
               /\ scn.lines[i].wpt = AppName(AB4)
    /\ \E i \in 1..Len(scn.lines) :
           scn.lines[i].cmd = "DEFWPT" /\ scn.lines[i].wpt = DestName(AB4)

\* C19: for every aircraft written with at least two samples, a delete
\* trigger at the last fix is written exactly when the final level is 0 or
\* auto-delete is enabled, and a descend-to-zero trigger at the second-to-last
\* fix exactly when the final level is 0, whatever the auto-delete setting.
C19_Triggers ==
    [][(last'.op = "RL_MAKE" /\ last'.ok) =>
        \A a \in Rendered(last'.pts) :
            \E o \in {Lookup(last'.names, a).out}, segs \in {Lookup(last'.pts, a).pts},
               before \in {IF last'.append THEN scn.lines ELSE HeaderLines} :
                Len(segs) >= 2 =>
                    /\ Emitted(before, scn'.lines, "AT_DEL", o, DestName(o))
                           <=> (segs[Len(segs)].fl = 0 \/ autodel)
                    /\ Emitted(before, scn'.lines, "AT_ALT0", o, AppName(o))
                           <=> (segs[Len(segs)].fl = 0)]_vars

\* with auto-delete disabled a generation has written AB4, which lands, with
\* both triggers, and AB3, which ends in the air, with none
C19_Witness ==
    /\ last.op = "RL_MAKE" /\ last.ok /\ ~autodel /\ ~last.append
    /\ HasKey(last.pts, AB3) /\ Len(Lookup(last.pts, AB3).pts) >= 2
    /\ \E i \in 1..Len(scn.lines) :
           scn.lines[i].cmd = "AT_DEL" /\ scn.lines[i].acid = AB4
    /\ \E i \in 1..Len(scn.lines) :
           scn.lines[i].cmd = "AT_ALT0" /\ scn.lines[i].acid = AB4
    /\ ~\E i \in 1..Len(scn.lines) :
           scn.lines[i].cmd \in TriggerCmds /\ scn.lines[i].acid = AB3

(***************************************************************************)
(* Properties of the calls that are rejected.                              *)
(***************************************************************************)
\* C20: a call of SATG_RL_JITTER, SATG_GC_CRE or SATG_RC_CIRCLE that is
\* rejected for a value it does not know reports an error and leaves the
\* session state and the scenario file as they were.
C20_RejectedLeavesState ==
    [][(last'.op \in {"RL_JITTER", "GC_CRE", "RC_CIRCLE"} /\ ~last'.ok)
           => UNCHANGED <<loadVars, jitterVars, autodel, gc_last_acids, gc_ranges,
                          scn>>]_vars

(***************************************************************************)
(* Properties of the sampling ranges.                                      *)
(***************************************************************************)
\* C21: a call of SATG_GC_RANGE or SATG_RC_CIRCLE that is given a range text
\* that is no range reports an error and stops: it does not succeed, sets no
\* range and writes no encounter.
C21_MalformedRangeRejected ==
    [][(/\ last'.op \in {"GC_RANGE", "RC_CIRCLE"}
        /\ \E s \in last'.texts : Len(s) > 0 /\ ~WellFormedRange(s))
           => (~last'.ok /\ ~last'.raised
               /\ UNCHANGED <<calls, gc_ranges, gc_last_acids, scn>>)]_vars

\* C24: a range changes only in a SATG_GC_RANGE call that is given that
\* range, so a range never set there keeps its default; SATG_RC_CIRCLE leaves
\* the ranges as they were, whether it returns or a write raises part-way.
C24_RangesOnlySetByRange ==
    [][\A k \in RangeKeys :
           gc_ranges'[k] # gc_ranges[k] => (last'.op = "GC_RANGE" /\ k \in last'.keys)]_vars

\* SATG_RC_CIRCLE has raised part-way after it ran with a cas2 range taken
\* from cas1, and cas2, never set, has its default
C24_Witness ==
    /\ last.op = "RC_CIRCLE" /\ last.raised
    /\ last.used.cas2 # DefaultRanges.cas2
    /\ gc_ranges.cas2 = DefaultRanges.cas2
    /\ gc_ranges.cas1 # DefaultRanges.cas1

(***************************************************************************)
(* Properties of generation on a failing file system.                      *)
(***************************************************************************)
\* C22: when a write to the scenario file fails during a generation call,
\* the rewrite of the normalisation and the removal of the old file
\* included, the call fails: it does not report success.
C22_WriteFailurePropagates ==
    [][last'.io \in {"open", "sort_open", "sort_write", "remove"} => ~last'.ok]_vars

(***************************************************************************)
(* C23: a generation call given a seed leaves one file whatever run of it  *)
(* is taken: the same call from the same state, with the same ranges and   *)
(* jitter settings and the same file, has a single outcome.                *)
(***************************************************************************)
C23_SeededReproducible ==
    (/\ last.op \in {"RL_MAKE", "GC_CRE", "RC_CIRCLE"}
     /\ last.ok
     /\ last.seed # NoSeed) => Cardinality(last.outs) <= 1

(***************************************************************************)
(* C25: as long as no session has worked on the file while another was     *)
(* within a call, the file has never held two CRE lines for one aircraft   *)
(* and no write has dropped a line; with calls that interleave both        *)
(* happen.                                                                 *)
(***************************************************************************)
C25_SerializedAppendsSafe == ~calls.overlap => (~calls.dup /\ ~calls.lost /\ ~DupCre(scn))

\* both anomalies have happened in one run of interleaved calls, and both
\* sessions have ended their calls
C25_Witness ==
    /\ calls.overlap /\ calls.dup /\ calls.lost
    /\ \A p \in Procs : ~Busy(p)

(***************************************************************************)
(* C26: the conversion returns a finite speed that is not negative, and of *)
(* two ground speeds at one level the greater gets the greater speed.      *)
(***************************************************************************)
Finite(r) == r.k \in {"zero", "num"}

Less(a, b) == (a.k = "zero" /\ b.k = "num") \/ (a.k = "num" /\ b.k = "num" /\ a.lg < b.lg)

C26_FiniteAndIncreasing ==
    last.op = "cas" =>
        /\ Finite(last.cas[1]) /\ Finite(last.cas[2])
        /\ Less(last.cas[1], last.cas[2])

(***************************************************************************)
(* C27: SATG_GC_DEL with identifiers recorded issues the DEL commands of   *)
(* the record in its order, one for each aircraft and none twice, and      *)
(* empties the record; with nothing recorded it fails and issues none.     *)
(***************************************************************************)
NoRepeat(ids) == \A i, j \in 1..Len(ids) : ids[i] = ids[j] => i = j

C27_OneDelEach ==
    [][last'.op = "GC_DEL" =>
           IF gc_last_acids = <<>>
           THEN ~last'.ok /\ last'.ids = <<>> /\ gc_last_acids' = <<>>
           ELSE /\ last'.ok
                /\ last'.ids = gc_last_acids
                /\ gc_last_acids' = <<>>
                /\ NoRepeat(last'.ids)]_vars

(***************************************************************************)
(* C28: in a file written by replay generations every trigger line names   *)
(* a fix that a DEFWPT line defines and that one of the ADDWPT lines of    *)
(* the same aircraft has as its target.                                    *)
(***************************************************************************)
C28_TriggerFixOnRoute ==
    scn.exists =>
        \A i \in 1..Len(scn.lines) :
            scn.lines[i].cmd \in TriggerCmds =>
                /\ \E j \in 1..Len(scn.lines) :
                       scn.lines[j].cmd = "DEFWPT" /\ scn.lines[j].wpt = scn.lines[i].wpt
                /\ \E j \in 1..Len(scn.lines) :
                       /\ scn.lines[j].cmd = "ADDWPT"
                       /\ scn.lines[j].acid = scn.lines[i].acid
                       /\ scn.lines[j].wpt = scn.lines[i].wpt

(***************************************************************************)
(* C29: a run that makes the waypoints of a generation leaves the loaded   *)
(* tracks and the loaded metadata as they were, so the next run starts     *)
(* from the loaded waypoints again.                                        *)
(***************************************************************************)
C29_BaselineKept ==
    [][last'.op = "points" => UNCHANGED <<flights, base_points, loaded_ok>>]_vars

\* a run has moved the waypoints of an aircraft, and the loaded ones are
\* not those of the run
C29_Witness ==
    /\ last.op = "points" /\ jitter_on
    /\ \E a \in last.sel :
           /\ HasKey(base_points, a)
           /\ Lookup(last.pts, a).pts # SortPoints(Lookup(base_points, a).pts)

(***************************************************************************)
(* C30: in the scenario file every line that refers to an aircraft comes   *)
(* after a CRE line of that aircraft, and every ADDWPT or trigger line     *)
(* that names a fix comes after a DEFWPT line of that fix.                 *)
(***************************************************************************)
C30_CreAndDefwptFirst ==
    scn.exists =>
        \A i \in 1..Len(scn.lines) :
            /\ (scn.lines[i].acid # NoText /\ scn.lines[i].cmd # "CRE") =>
                   \E j \in 1..(i - 1) :
                       scn.lines[j].cmd = "CRE" /\ scn.lines[j].acid = scn.lines[i].acid
            /\ (scn.lines[i].wpt # NoText /\ scn.lines[i].cmd # "DEFWPT") =>
                   \E j \in 1..(i - 1) :
                       scn.lines[j].cmd = "DEFWPT" /\ scn.lines[j].wpt = scn.lines[i].wpt

====
